---- MODULE Spec2Model ----
(***************************************************************************)
(* Header Hunter v8.0: the inventory intelligence engine.                  *)
(*                                                                         *)
(* SpecRules models business_rules.py (InventoryMetrics, StatusDeterminer, *)
(* calculate_soq) and its caller apply_soq_and_status in hh_logic.py.      *)
(* SpecRecon models the purchase-order / transfer reconciliation of        *)
(* run_logic_pandas in hh_logic.py.  SpecTransfers models                  *)
(* _process_transfer_data and its log, SpecIngest the ingestion runs of    *)
(* hh_ingest.py (update_memory_bank) on the source folder, the Archive and *)
(* the master bank, and SpecAnalysis the control flow of run_logic_pandas  *)
(* around the report file of excel_writer.py and the completion callback.  *)
(*                                                                         *)
(* Python floats are modelled as exact rationals <<n, d>> with d > 0, kept *)
(* in lowest terms; NaN and the infinities are outside the modelled        *)
(* domain.  A datetime is a rational number of days since an epoch, so     *)
(* that timedelta.days is a floor.  None is the empty tuple <<>> and a     *)
(* present optional value v is <<v>>.                                      *)
(***************************************************************************)
EXTENDS Integers, Sequences, FiniteSets, TLC

VARIABLES
    metrics,      \* the live InventoryMetrics object: <<>> (none) or <<m>>
    call,         \* the last call made on business_rules.py and its outcome
    master,       \* the reconciled row of the tracked SKU (run_logic_pandas)
    run,          \* the inputs and position of the analysis run
    transfers,    \* the last _process_transfer_data call: inputs, Series, log
    inbox,        \* the snapshot files in the source folder of the ingestion
    archive,      \* the names of the files in the Archive folder
    store,        \* the persisted master bank (sales_history_master.parquet)
    ingest,       \* the position and locals of update_memory_bank
    analysis,     \* the position and outcome of run_logic_pandas
    history,      \* the history table of hh_history.py and the last query on it
    join,         \* the extracts and the merged master table of run_logic_pandas
    gui,          \* the window of hh_gui_modern.py: button, log queue, workers
    rival,        \* a second run of update_memory_bank on the same folders
    ordering      \* the last row analysed in binary64 arithmetic and its outcome

rulesVars == <<metrics, call>>
reconVars == <<master, run>>
ingestVars == <<inbox, archive, store, ingest>>
otherVars == <<history, join, gui, rival, ordering>>
vars == <<metrics, call, master, run, transfers, inbox, archive, store, ingest, analysis,
          history, join, gui, rival, ordering>>

(***************************************************************************)
(* Bounds of the model.                                                    *)
(***************************************************************************)
MaxStock == 4
MaxIncoming == 2
MaxSold == 3
MaxCase == 3
MaxPO == 1
MaxPORows == 2
MaxTransfers == 2

(***************************************************************************)
(* Rational arithmetic (Python float, exact).                              *)
(***************************************************************************)
Abs(n) == IF n < 0 THEN -n ELSE n

RECURSIVE GCD(_, _)
GCD(a, b) == IF b = 0 THEN a ELSE GCD(b, a % b)

\* The outcome of a division by zero; it propagates through the arithmetic.
ZeroDivision == <<0, 0>>

Rat(n, d) ==
    IF d = 0 THEN ZeroDivision
    ELSE LET s == IF d < 0 THEN -1 ELSE 1
             g == GCD(Abs(n), Abs(d))
         IN  <<(s * n) \div g, (s * d) \div g>>

Num(n) == <<n, 1>>
RLt(a, b) == a[1] * b[2] < b[1] * a[2]
RLe(a, b) == a[1] * b[2] <= b[1] * a[2]
RGt(a, b) == RLt(b, a)
RGe(a, b) == RLe(b, a)
REq(a, b) == a[1] * b[2] = b[1] * a[2]
RAdd(a, b) == Rat(a[1] * b[2] + b[1] * a[2], a[2] * b[2])
RSub(a, b) == Rat(a[1] * b[2] - b[1] * a[2], a[2] * b[2])
RMul(a, b) == Rat(a[1] * b[1], a[2] * b[2])
RDiv(a, b) == Rat(a[1] * b[2], a[2] * b[1])
RMax(a, b) == IF RGt(b, a) THEN b ELSE a
RMin(a, b) == IF RLt(b, a) THEN b ELSE a
Floor(a) == a[1] \div a[2]
Ceil(a) == -((-a[1]) \div a[2])

(***************************************************************************)
(* business_rules.py                                                       *)
(***************************************************************************)
STATUS_NEW == "New"
STATUS_COLD == "Cold"
STATUS_HOT == "Hot"
STATUS_REORDER == "Reorder"
STATUS_GOOD == "Good"
STATUS_DEAD == "Dead"
STATUS_MINIMAL == "Minimal"
ValueError == "ValueError"

StatusTags ==
    {STATUS_NEW, STATUS_COLD, STATUS_HOT, STATUS_REORDER, STATUS_GOOD,
     STATUS_DEAD, STATUS_MINIMAL}

DEFAULT_SILENCE_THRESHOLD == 999

StatusRules(hot, reorder, target, deadw, deadoh, mult) ==
    [hot_velocity |-> hot, reorder_point |-> reorder, target_wos |-> target,
     dead_wos |-> deadw, dead_on_hand |-> deadoh,
     good_velocity_multiplier |-> mult]

\* DEFAULT_SETTINGS["cannabis_logic"] and ["accessory_logic"]
CannabisLogic ==
    [hot_velocity |-> Num(2), reorder_point |-> <<5, 2>>, target_wos |-> Num(4),
     dead_wos |-> Num(26), dead_on_hand |-> 5]
AccessoryLogic ==
    [hot_velocity |-> <<1, 2>>, reorder_point |-> Num(4), target_wos |-> Num(8),
     dead_wos |-> Num(52), dead_on_hand |-> 3]

rules_dict_to_status_rules(rules_dict, is_accessory) ==
    StatusRules(rules_dict.hot_velocity, rules_dict.reorder_point,
                rules_dict.target_wos, rules_dict.dead_wos,
                rules_dict.dead_on_hand, <<1, 4>>)

\* Mutant: the window check written as < 0.
PostInit_strict_days(self) ==
    IF self.stock < 0 THEN ValueError
    ELSE IF self.incoming < 0 THEN ValueError
    ELSE IF RLt(self.total_units_sold, Num(0)) THEN ValueError
    ELSE IF RLt(self.report_days, Num(0)) THEN ValueError
    ELSE "ok"

\* The result of InventoryMetrics.__post_init__: "ok" or the error raised.
PostInit(self) ==
    IF self.stock < 0 THEN ValueError
    ELSE IF self.incoming < 0 THEN ValueError
    ELSE IF RLt(self.total_units_sold, Num(0)) THEN ValueError
    ELSE IF RLe(self.report_days, Num(0)) THEN ValueError
    ELSE "ok"

\* (last_sale_date - report_start_date).days
days_until_last_sale(self) ==
    Floor(RSub(self.last_sale_date[1], self.report_start_date))

\* Mutant: the 1-day minimum left out.
period_days_no_minimum(self) ==
    IF self.stock = 0 /\ self.last_sale_date # <<>>
    THEN RMin(Num(days_until_last_sale(self)), self.report_days)
    ELSE self.report_days

period_days(self) ==
    IF self.stock = 0 /\ self.last_sale_date # <<>>
    THEN RMin(RMax(Num(1), Num(days_until_last_sale(self))), self.report_days)
    ELSE self.report_days

calculate_velocity(self) ==
    LET weeks == RDiv(period_days(self), Num(7))
    IN  IF RGt(weeks, Num(0)) THEN RDiv(self.total_units_sold, weeks)
        ELSE Num(0)

\* Mutant: the validation written as velocity <= 0.
calculate_effective_wos_raises_on_zero(stock, incoming, velocity, silence_threshold) ==
    IF RLe(velocity, Num(0)) THEN [raised |-> TRUE, value |-> Num(0)]
    ELSE LET total_available == (IF stock > 0 THEN stock ELSE 0) + incoming
         IN  [raised |-> FALSE, value |-> RDiv(Num(total_available), velocity)]

\* Mutant: the silence threshold hard-wired to the default.
calculate_effective_wos_fixed_threshold(stock, incoming, velocity, silence_threshold) ==
    IF RLt(velocity, Num(0)) THEN [raised |-> TRUE, value |-> Num(0)]
    ELSE IF REq(velocity, Num(0))
    THEN [raised |-> FALSE, value |-> Num(999)]
    ELSE LET total_available == (IF stock > 0 THEN stock ELSE 0) + incoming
         IN  [raised |-> FALSE, value |-> RDiv(Num(total_available), velocity)]

\* [raised, value]: raised is TRUE when the ValueError is raised.
calculate_effective_wos(stock, incoming, velocity, silence_threshold) ==
    IF RLt(velocity, Num(0)) THEN [raised |-> TRUE, value |-> Num(0)]
    ELSE IF REq(velocity, Num(0))
    THEN [raised |-> FALSE, value |-> silence_threshold]
    ELSE LET total_available == (IF stock > 0 THEN stock ELSE 0) + incoming
         IN  [raised |-> FALSE, value |-> RDiv(Num(total_available), velocity)]

\* Mutant: the stock test made before the incoming test.
zero_velocity_status_stock_first(incoming, effective_oh) ==
    IF effective_oh > 0 THEN STATUS_COLD
    ELSE IF incoming > 0 THEN STATUS_NEW
    ELSE STATUS_MINIMAL

\* Tier 1: zero velocity.
zero_velocity_status(incoming, effective_oh) ==
    IF incoming > 0 THEN STATUS_NEW
    ELSE IF effective_oh > 0 THEN STATUS_COLD
    ELSE STATUS_MINIMAL

\* Mutant: wos <= reorder_point.
high_velocity_status_le(wos, effective_wos, rules) ==
    IF RLe(wos, rules.reorder_point)
    THEN IF RGe(effective_wos, rules.reorder_point)
         THEN STATUS_GOOD
         ELSE STATUS_REORDER
    ELSE STATUS_HOT

\* Tier 2: velocity >= hot_velocity.
high_velocity_status(wos, effective_wos, rules) ==
    IF RLt(wos, rules.reorder_point)
    THEN IF RGe(effective_wos, rules.reorder_point)
         THEN STATUS_GOOD
         ELSE STATUS_REORDER
    ELSE STATUS_HOT

\* Mutant: the test of the incoming cover reversed.
medium_velocity_status_cover_reversed(wos, effective_wos, rules) ==
    IF RLt(wos, rules.reorder_point)
    THEN IF RLe(effective_wos, rules.reorder_point)
         THEN STATUS_GOOD
         ELSE STATUS_REORDER
    ELSE STATUS_GOOD

\* Tier 3: velocity >= hot_velocity * good_velocity_multiplier.
medium_velocity_status(wos, effective_wos, rules) ==
    IF RLt(wos, rules.reorder_point)
    THEN IF RGe(effective_wos, rules.reorder_point)
         THEN STATUS_GOOD
         ELSE STATUS_REORDER
    ELSE STATUS_GOOD

\* Mutant: wos >= dead_wos.
low_velocity_status_ge(wos, effective_oh, rules) ==
    IF RGe(wos, rules.dead_wos) /\ effective_oh > rules.dead_on_hand
    THEN STATUS_DEAD
    ELSE STATUS_MINIMAL

\* Tiers 4 and 5: dead stock, else the default.
low_velocity_status(wos, effective_oh, rules) ==
    IF RGt(wos, rules.dead_wos) /\ effective_oh > rules.dead_on_hand
    THEN STATUS_DEAD
    ELSE STATUS_MINIMAL

good_vel_threshold(rules) ==
    RMul(rules.hot_velocity, rules.good_velocity_multiplier)

is_high_velocity(velocity, rules) == RGe(velocity, rules.hot_velocity)

\* Mutant: velocity > the good-velocity threshold.
is_medium_velocity_strict(velocity, rules) == RGt(velocity, good_vel_threshold(rules))

is_medium_velocity(velocity, rules) == RGe(velocity, good_vel_threshold(rules))

\* A status tag, or ValueError when calculate_effective_wos raises.
determine_status(m, rules) ==
    LET velocity == calculate_velocity(m)
        effective_oh == IF m.stock > 0 THEN m.stock ELSE 0
        incoming == m.incoming
        wos == calculate_effective_wos(effective_oh, 0, velocity,
                                       Num(DEFAULT_SILENCE_THRESHOLD))
        effective_wos == calculate_effective_wos(effective_oh, incoming, velocity,
                                                 Num(DEFAULT_SILENCE_THRESHOLD))
    IN  IF wos.raised \/ effective_wos.raised THEN ValueError
        ELSE IF REq(velocity, Num(0))
        THEN zero_velocity_status(incoming, effective_oh)
        ELSE IF is_high_velocity(velocity, rules)
        THEN high_velocity_status(wos.value, effective_wos.value, rules)
        ELSE IF is_medium_velocity(velocity, rules)
        THEN medium_velocity_status(wos.value, effective_wos.value, rules)
        ELSE low_velocity_status(wos.value, effective_oh, rules)

net_need(m, rules) ==
    RSub(RMul(calculate_velocity(m), rules.target_wos), Num(m.stock + m.incoming))

\* Mutant: floor + 1 in place of ceil.
calculate_soq_floor_plus_one(m, rules, case_size) ==
    IF RLe(net_need(m, rules), Num(0)) THEN 0
    ELSE LET cases_needed ==
                 Floor(RDiv(net_need(m, rules),
                            Num(IF case_size > 1 THEN case_size ELSE 1))) + 1
         IN  cases_needed * case_size

calculate_soq(m, rules, case_size) ==
    IF RLe(net_need(m, rules), Num(0)) THEN 0
    ELSE LET cases_needed ==
                 Ceil(RDiv(net_need(m, rules),
                           Num(IF case_size > 1 THEN case_size ELSE 1)))
         IN  cases_needed * case_size

(***************************************************************************)
(* The calls of SpecRules.  A session starts with one of: a direct         *)
(* construction of an InventoryMetrics, a row of the analysis run handed   *)
(* to apply_soq_and_status, or a call of the static                        *)
(* calculate_effective_wos; the methods are then called on the object.     *)
(***************************************************************************)
CustomRules == StatusRules(Num(2), Num(2), Num(3), Num(4), 1, <<1, 2>>)

RuleSets == {rules_dict_to_status_rules(CannabisLogic, FALSE), CustomRules}

ReportDays == {Num(0), <<1, 2>>, Num(7), Num(14), Num(35)}
ReportStartDate == Num(1)
LastSaleDates ==
    {<<>>, <<<<1, 2>>>>, <<Num(1)>>, <<<<5, 2>>>>, <<Num(4)>>, <<Num(8)>>,
     <<Num(10)>>}

WosVelocities == {Num(-1), Num(0), <<1, 2>>, Num(2)}
WosThresholds == {Num(DEFAULT_SILENCE_THRESHOLD), Num(5)}

CallRec(op, m, rules, case_size, args, raised, status, value, soq, prev) ==
    [op |-> op, metrics |-> m, rules |-> rules, case_size |-> case_size,
     args |-> args, raised |-> raised, status |-> status, value |-> value,
     soq |-> soq, prev |-> prev]

NoCall == CallRec("none", <<>>, <<>>, 0, <<>>, FALSE, "", Num(0), 0, <<>>)

InventoryMetrics(stock, incoming, is_accessory, total_units_sold, report_days, report_start_date, last_sale_date) ==
    [stock |-> stock, incoming |-> incoming, is_accessory |-> is_accessory,
     total_units_sold |-> total_units_sold, report_days |-> report_days,
     report_start_date |-> report_start_date, last_sale_date |-> last_sale_date]

Construct ==
    /\ call.op = "none"
    /\ \E stock \in -1..MaxStock, incoming \in -1..MaxIncoming,
          sold \in -1..MaxSold, days \in ReportDays, last \in LastSaleDates :
          LET self == InventoryMetrics(stock, incoming, FALSE, Num(sold), days,
                                       ReportStartDate, last)
              ok == PostInit(self) = "ok"
          IN  /\ metrics' = IF ok THEN <<self>> ELSE <<>>
              /\ call' = CallRec("InventoryMetrics", <<self>>, <<>>, 0, <<>>,
                                 ~ok, "", Num(0), 0, <<>>)
    /\ UNCHANGED <<reconVars, transfers, ingestVars, analysis, otherVars>>

CalculateVelocity ==
    /\ metrics # <<>>
    /\ call' = CallRec("calculate_velocity", metrics, <<>>, 0, <<>>, FALSE, "",
                       calculate_velocity(metrics[1]), 0, <<>>)
    /\ UNCHANGED <<metrics, reconVars, transfers, ingestVars, analysis, otherVars>>

DetermineStatus ==
    /\ metrics # <<>>
    /\ \E rules \in RuleSets :
          LET status == determine_status(metrics[1], rules)
          IN  call' = CallRec("determine_status", metrics, <<rules>>, 0, <<>>,
                              status = ValueError, status, Num(0), 0,
                              IF call.op = "determine_status" /\ call.rules = <<rules>>
                              THEN <<call.status>> ELSE <<>>)
    /\ UNCHANGED <<metrics, reconVars, transfers, ingestVars, analysis, otherVars>>

CalculateSoq ==
    /\ metrics # <<>>
    /\ \E rules \in RuleSets, case_size \in 0..MaxCase :
          call' = CallRec("calculate_soq", metrics, <<rules>>, case_size, <<>>,
                          FALSE, "", Num(0),
                          calculate_soq(metrics[1], rules, case_size), <<>>)
    /\ UNCHANGED <<metrics, reconVars, transfers, ingestVars, analysis, otherVars>>

CalculateEffectiveWos ==
    /\ call.op = "none"
    /\ \E stock \in {-1, 0, 2}, incoming \in {0, 1},
          velocity \in WosVelocities, threshold \in WosThresholds :
          LET r == calculate_effective_wos(stock, incoming, velocity, threshold)
          IN  call' = CallRec("calculate_effective_wos", <<>>, <<>>, 0,
                              <<stock, incoming, velocity, threshold>>,
                              r.raised, "", r.value, 0, <<>>)
    /\ UNCHANGED <<metrics, reconVars, transfers, ingestVars, analysis, otherVars>>

(***************************************************************************)
(* hh_logic.py: the analysis run's use of business_rules.py.               *)
(***************************************************************************)
DefaultReportDays == 30

\* The report_days text of the caller: empty, not a number, or a number.
DaysTexts ==
    {[kind |-> "empty", value |-> Num(0)], [kind |-> "garbage", value |-> Num(0)]}
    \cup {[kind |-> "number", value |-> v] : v \in {Num(-7), Num(0), <<1, 2>>, Num(7), Num(30)}}

\* run_logic_pandas: days = float(report_days) if report_days else 30.0
parse_report_days(text) ==
    IF text.kind = "empty" THEN Num(DefaultReportDays)
    ELSE IF text.kind = "garbage" THEN Num(DefaultReportDays)
    ELSE IF RLe(text.value, Num(0)) THEN Num(DefaultReportDays)
    ELSE text.value

Now == Num(40)

\* The cell f'{date_col}_{loc}' of a row: no date column, the 0 that fillna
\* leaves where the SKU has no sale, or the timestamp of the last sale.
LastSaleCells ==
    {[kind |-> "nocol", date |-> Num(0)], [kind |-> "zero", date |-> Num(0)],
     [kind |-> "date", date |-> <<73, 2>>]}

last_sale_of(cell) == IF cell.kind = "date" THEN <<cell.date>> ELSE <<>>

Max0(n) == IF n > 0 THEN n ELSE 0

\* The InventoryMetrics that apply_soq_and_status constructs from a row.
row_metrics(row, days) ==
    InventoryMetrics(Max0(row.Stock), Max0(row.Inc_Num), row.Is_Accessory,
                     Num(Max0(row.Sold)), days, RSub(Now, days),
                     last_sale_of(row.Last_Sale))

safe_case_size(row) == IF row.Case_Size > 1 THEN row.Case_Size ELSE 1

\* The adj_wos that apply_soq_and_status reports.
adj_wos(m) ==
    LET adj_velocity == calculate_velocity(m)
    IN  IF RGt(adj_velocity, Num(0)) THEN RDiv(Num(m.stock), adj_velocity)
        ELSE IF m.stock = 0 THEN Num(0)
        ELSE Num(DEFAULT_SILENCE_THRESHOLD)

RowRec(stock, inc, sold, last, acc, case) ==
    [Stock |-> stock, Inc_Num |-> inc, Sold |-> sold, Last_Sale |-> last,
     Is_Accessory |-> acc, Case_Size |-> case]

ApplySoqAndStatus ==
    /\ call.op = "none"
    /\ \E text \in DaysTexts, stock \in -1..MaxStock, inc \in 0..MaxIncoming,
          sold \in -1..MaxSold, last \in LastSaleCells, acc \in BOOLEAN,
          case \in {-1} \cup 1..MaxCase :
          LET row == RowRec(stock, inc, sold, last, acc, case)
              days == parse_report_days(text)
              rules == rules_dict_to_status_rules(
                           IF acc THEN AccessoryLogic ELSE CannabisLogic, acc)
              m == row_metrics(row, days)
              ok == PostInit(m) = "ok"
          IN  call' =
                 IF ok
                 THEN CallRec("apply_soq_and_status", <<m>>, <<rules>>,
                              safe_case_size(row), <<row, adj_wos(m)>>, FALSE,
                              determine_status(m, rules), calculate_velocity(m),
                              calculate_soq(m, rules, safe_case_size(row)), <<>>)
                 ELSE CallRec("apply_soq_and_status", <<m>>, <<rules>>,
                              safe_case_size(row), <<row>>, TRUE, "", Num(0), 0, <<>>)
    /\ UNCHANGED <<metrics, reconVars, transfers, ingestVars, analysis, otherVars>>

(***************************************************************************)
(* hh_logic.py: purchase orders and transfers reconciled into the incoming *)
(* quantity of each location.  A string is a tuple of characters; an       *)
(* extract is a sequence of rows; a pandas Series is a function from the   *)
(* SKUs it is indexed by to their values.                                  *)
(***************************************************************************)
Uppercase ==
    [c \in {"a", "e", "h", "i", "j", "l", "o", "p", "r", "s", "t", "v", "y"} |->
        CASE c = "a" -> "A" [] c = "e" -> "E" [] c = "h" -> "H" [] c = "i" -> "I"
          [] c = "j" -> "J" [] c = "l" -> "L" [] c = "o" -> "O" [] c = "p" -> "P"
          [] c = "r" -> "R" [] c = "s" -> "S" [] c = "t" -> "T" [] c = "v" -> "V"
          [] c = "y" -> "Y"]

\* str.upper()
Upper(str) ==
    [i \in DOMAIN str |-> IF str[i] \in DOMAIN Uppercase THEN Uppercase[str[i]]
                          ELSE str[i]]

\* needle in str
Contains(str, needle) ==
    \E i \in 1..(Len(str) - Len(needle) + 1) :
        SubSeq(str, i, i + Len(needle) - 1) = needle

NaN == <<"NaN">>
HILL == <<"H", "I", "L", "L">>
VALLEY == <<"V", "A", "L", "L", "E", "Y">>
JASPER == <<"J", "A", "S", "P", "E", "R">>

\* 'Hill', 'Valley', 'Jasper', or <<>> for None.
normalize_transfer_loc(loc_str) ==
    IF loc_str = NaN THEN <<>>
    ELSE IF Contains(Upper(loc_str), HILL) THEN <<"Hill">>
    ELSE IF Contains(Upper(loc_str), VALLEY) THEN <<"Valley">>
    ELSE IF Contains(Upper(loc_str), JASPER) THEN <<"Jasper">>
    ELSE <<>>

\* .str.replace(r'\.0$', '', regex=True)
strip_float_suffix(sku) ==
    IF Len(sku) >= 2 /\ SubSeq(sku, Len(sku) - 1, Len(sku)) = <<".", "0">>
    THEN SubSeq(sku, 1, Len(sku) - 2)
    ELSE sku

RECURSIVE SumQty(_, _)
\* the sum of the quantities of the rows of one SKU
SumQty(rows, sku) ==
    IF rows = <<>> THEN 0
    ELSE (IF strip_float_suffix(Head(rows).sku) = sku THEN Head(rows).qty ELSE 0)
         + SumQty(Tail(rows), sku)

\* rows.groupby(sku)[qty].sum(): the Series of the quantities summed by SKU
GroupSum(rows) ==
    [sku \in {strip_float_suffix(rows[i].sku) : i \in DOMAIN rows} |->
        SumQty(rows, sku)]

_process_po_data(df_po) == GroupSum(df_po)

\* The six Series: transfers FROM (Trans_<loc>) and TO (Trans_To_<loc>).
_process_transfer_data(df_transfers) ==
    LET From(loc) ==
            LET Mask(row) == normalize_transfer_loc(row.source) = <<loc>>
            IN  GroupSum(SelectSeq(df_transfers, Mask))
        To(loc) ==
            LET Mask(row) == normalize_transfer_loc(row.dest) = <<loc>>
            IN  GroupSum(SelectSeq(df_transfers, Mask))
    IN  [Trans_Hill |-> From("Hill"), Trans_Valley |-> From("Valley"),
         Trans_Jasper |-> From("Jasper"), Trans_To_Hill |-> To("Hill"),
         Trans_To_Valley |-> To("Valley"), Trans_To_Jasper |-> To("Jasper")]

\* master.join(transfer_df, how='left').fillna(0), for the row of one SKU
Joined(series, sku) == IF sku \in DOMAIN series THEN series[sku] ELSE 0

\* settings.get('po_destination', 'J').upper()
po_destination_of(settings) ==
    IF settings = <<>> THEN <<"J">> ELSE Upper(settings[1])

\* PO_Net_<loc>: the PO quantity goes to the destination location
PO_Net(loc, po_destination, PO_Qty) ==
    IF po_destination = <<"H">> THEN (IF loc = "Hill" THEN PO_Qty ELSE 0)
    ELSE IF po_destination = <<"V">> THEN (IF loc = "Valley" THEN PO_Qty ELSE 0)
    ELSE (IF loc = "Jasper" THEN PO_Qty ELSE 0)

\* Mutant: the clip at 0 left out.
incoming_net_unclipped(incoming_po, incoming_transfers, outgoing_transfers) ==
    incoming_po + incoming_transfers - outgoing_transfers

\* (incoming_po + incoming_transfers - outgoing_transfers).clip(lower=0)
incoming_net(incoming_po, incoming_transfers, outgoing_transfers) ==
    LET net == incoming_po + incoming_transfers - outgoing_transfers
    IN  IF net < 0 THEN 0 ELSE net

Locations == {"Hill", "Valley", "Jasper"}

\* The row of master for one SKU after the merge and the per-location loop.
master_row(sku, df_po, df_transfers, settings) ==
    LET po_series == _process_po_data(df_po)
        transfer_data == _process_transfer_data(df_transfers)
        PO_Qty == Joined(po_series, sku)
        dest == po_destination_of(settings)
        t_from == [loc \in Locations |->
                      IF loc = "Hill" THEN Joined(transfer_data.Trans_Hill, sku)
                      ELSE IF loc = "Valley" THEN Joined(transfer_data.Trans_Valley, sku)
                      ELSE Joined(transfer_data.Trans_Jasper, sku)]
        t_to == [loc \in Locations |->
                    IF loc = "Hill" THEN Joined(transfer_data.Trans_To_Hill, sku)
                    ELSE IF loc = "Valley" THEN Joined(transfer_data.Trans_To_Valley, sku)
                    ELSE Joined(transfer_data.Trans_To_Jasper, sku)]
    IN  [SKU |-> sku, PO_Qty |-> PO_Qty, Trans |-> t_from, Trans_To |-> t_to,
         PO_Net |-> [loc \in Locations |-> PO_Net(loc, dest, PO_Qty)],
         Inc_Num |-> [loc \in Locations |->
                         incoming_net(PO_Net(loc, dest, PO_Qty), t_to[loc], t_from[loc])]]

\* The inputs of a run: the tracked SKU A and another SKU B; transfers of one
\* unit between any two location strings (a larger transfer is several rows).
SkuA == <<"A">>
SkuB == <<"B">>
LocStrings ==
    {<<"H", "i", "l", "l">>, <<"V", "A", "L", "L", "E", "Y">>,
     <<"j", "a", "s", "p", "e", "r">>, <<"D", "e", "p", "o", "t">>}
TransferRows ==
    {[sku |-> SkuA, source |-> s, dest |-> d, qty |-> 1] :
        s \in LocStrings, d \in LocStrings}
    \cup {[sku |-> SkuB, source |-> <<"H", "i", "l", "l">>,
           dest |-> <<"j", "a", "s", "p", "e", "r">>, qty |-> 1]}
PORows ==
    {[sku |-> SkuA, qty |-> q] : q \in 1..MaxPO} \cup {[sku |-> SkuB, qty |-> 1]}
PoDestinations == {<<>>, <<<<"H">>>>, <<<<"v">>>>}

RECURSIVE SetToSeq(_)
SetToSeq(S) ==
    IF S = {} THEN <<>>
    ELSE LET x == CHOOSE x \in S : TRUE IN <<x>> \o SetToSeq(S \ {x})

\* The extracts of at most max rows, up to the order of the rows (the sums
\* by SKU do not depend on it).
Extracts(Rows, max) ==
    LET all == SetToSeq(Rows)
    IN  UNION {{[i \in 1..n |-> all[f[i]]] :
                   f \in {g \in [1..n -> 1..Len(all)] :
                             \A i \in 1..(n - 1) : g[i] <= g[i + 1]}} :
               n \in 0..max}

\* run_logic_pandas, from the loaded extracts to the reconciled master row.
RunLogic ==
    /\ run.pc = "idle"
    /\ \E df_po \in Extracts(PORows, MaxPORows),
          df_transfers \in Extracts(TransferRows, MaxTransfers),
          settings \in PoDestinations :
          /\ run' = [pc |-> "reconciled", df_po |-> df_po,
                     df_transfers |-> df_transfers, po_destination |-> settings]
          /\ master' = <<master_row(SkuA, df_po, df_transfers, settings)>>
    /\ UNCHANGED <<rulesVars, transfers, ingestVars, analysis, otherVars>>

(***************************************************************************)
(* hh_logic.py: _process_transfer_data and the messages it hands to        *)
(* log_func.  source_col / dest_col tell whether the extract has a column  *)
(* whose name contains SOURCE / DEST.                                      *)
(***************************************************************************)
LogMsg(level, text, loc, records) ==
    [level |-> level, text |-> text, loc |-> loc, records |-> records]

\* df_transfers['_Source_Norm'] and df_transfers['_Dest_Norm'] of a row
Source_Norm(row, source_col) ==
    IF source_col THEN normalize_transfer_loc(row.source) ELSE <<>>
Dest_Norm(row, dest_col) ==
    IF dest_col THEN normalize_transfer_loc(row.dest) ELSE <<>>

\* The six Series, for an extract with or without the two columns.
transfer_series(df_transfers, source_col, dest_col) ==
    LET From(loc) ==
            LET Mask(row) == Source_Norm(row, source_col) = <<loc>>
            IN  GroupSum(SelectSeq(df_transfers, Mask))
        To(loc) ==
            LET Mask(row) == Dest_Norm(row, dest_col) = <<loc>>
            IN  GroupSum(SelectSeq(df_transfers, Mask))
    IN  [Trans_Hill |-> From("Hill"), Trans_Valley |-> From("Valley"),
         Trans_Jasper |-> From("Jasper"), Trans_To_Hill |-> To("Hill"),
         Trans_To_Valley |-> To("Valley"), Trans_To_Jasper |-> To("Jasper")]

\* The log_func calls of _process_transfer_data, in order.
transfer_log(df_transfers, source_col, dest_col) ==
    LET FromRecords(loc) ==
            Cardinality({i \in DOMAIN df_transfers :
                            Source_Norm(df_transfers[i], source_col) = <<loc>>})
        ToRecords(loc) ==
            Cardinality({i \in DOMAIN df_transfers :
                            Dest_Norm(df_transfers[i], dest_col) = <<loc>>})
        FromMsg(loc) ==
            IF FromRecords(loc) > 0
            THEN <<LogMsg("info", "Transfers FROM", loc, FromRecords(loc))>>
            ELSE <<>>
        ToMsg(loc) ==
            IF ToRecords(loc) > 0
            THEN <<LogMsg("info", "Transfers TO", loc, ToRecords(loc))>>
            ELSE <<>>
    IN  IF df_transfers = <<>> THEN <<>>
        ELSE (IF source_col THEN <<>>
              ELSE <<LogMsg("warning", "No Source column found", "", 0)>>)
             \o (IF dest_col THEN <<>>
                 ELSE <<LogMsg("warning", "No Dest column found", "", 0)>>)
             \o FromMsg("Hill") \o FromMsg("Valley") \o FromMsg("Jasper")
             \o ToMsg("Hill") \o ToMsg("Valley") \o ToMsg("Jasper")

ProcessTransferData ==
    /\ transfers.pc = "idle"
    /\ \E df_transfers \in Extracts(TransferRows, MaxTransfers),
          source_col \in BOOLEAN, dest_col \in BOOLEAN :
          transfers' = [pc |-> "processed", df_transfers |-> df_transfers,
                        source_col |-> source_col, dest_col |-> dest_col,
                        data |-> transfer_series(df_transfers, source_col, dest_col),
                        log |-> transfer_log(df_transfers, source_col, dest_col)]
    /\ UNCHANGED <<rulesVars, reconVars, ingestVars, analysis, otherVars>>

(***************************************************************************)
(* hh_ingest.py: the snapshot files and ingest_file.  A file name is the   *)
(* sequence of the YYYY-MM-DD tokens that re.findall returns on it, each a *)
(* triple <<year, month, day>>; a file's content is whether read_csv can   *)
(* read it, its columns (after the renaming of the column mapping) and its *)
(* data rows.                                                              *)
(***************************************************************************)
MaxInbox == 2

DaysIn(year, month) ==
    IF month \in {4, 6, 9, 11} THEN 30
    ELSE IF month = 2 THEN (IF year % 4 = 0 /\ (year % 100 # 0 \/ year % 400 = 0)
                            THEN 29 ELSE 28)
    ELSE 31

\* pd.to_datetime on a YYYY-MM-DD token whose month is in 1..12: the
\* timestamp (as a number that orders the dates), or the ValueError raised
\* for a day that the month does not have.
to_datetime(token) ==
    IF token[3] >= 1 /\ token[3] <= DaysIn(token[1], token[2])
    THEN [raised |-> FALSE, value |-> (token[1] * 12 + token[2]) * 31 + token[3]]
    ELSE [raised |-> TRUE, value |-> 0]

\* extract_date: None (<<>>) with fewer than two tokens, else matches[1].
extract_date(matches) ==
    IF Len(matches) >= 2
    THEN LET ts == to_datetime(matches[2])
         IN  IF ts.raised THEN [raised |-> TRUE, value |-> <<>>]
             ELSE [raised |-> FALSE, value |-> <<ts.value>>]
    ELSE [raised |-> FALSE, value |-> <<>>]

Lowercase ==
    [c \in {"D", "E", "H", "I", "L", "O", "P", "T"} |->
        CASE c = "D" -> "d" [] c = "E" -> "e" [] c = "H" -> "h" [] c = "I" -> "i"
          [] c = "L" -> "l" [] c = "O" -> "o" [] c = "P" -> "p" [] c = "T" -> "t"]

\* str.lower()
Lower(str) ==
    [i \in DOMAIN str |-> IF str[i] \in DOMAIN Lowercase THEN Lowercase[str[i]]
                          ELSE str[i]]

clean_loc(x) ==
    LET s == Lower(x)
    IN  IF Contains(s, <<"h", "i", "l", "l">>) THEN "Hill"
        ELSE IF Contains(s, <<"v", "a", "l", "l", "e", "y">>) THEN "Valley"
        ELSE IF Contains(s, <<"j", "a", "s", "p", "e", "r">>) THEN "Jasper"
        ELSE "Other"

\* One row of the frame ingest_file returns.
HistoryRow(sku, quantity, location, report_end_date) ==
    [SKU |-> sku, Quantity |-> quantity, Location |-> location,
     Report_End_Date |-> report_end_date]

\* The outcome of ingest_file: kind "raised" (the exception of extract_date
\* leaves the function), "no_date" and "error" (None is returned after the
\* message), or "frame" with the rows of the frame returned.
ingest_file(file) ==
    LET report_date == extract_date(file.matches)
    IN  IF report_date.raised THEN [kind |-> "raised", rows |-> <<>>]
        ELSE IF report_date.value = <<>> THEN [kind |-> "no_date", rows |-> <<>>]
        ELSE IF ~file.readable THEN [kind |-> "error", rows |-> <<>>]
        ELSE IF "SKU" \notin file.columns \/ "Quantity" \notin file.columns
        THEN [kind |-> "error", rows |-> <<>>]
        ELSE [kind |-> "frame",
              rows |-> [i \in DOMAIN file.rows |->
                           HistoryRow(Upper(strip_float_suffix(file.rows[i].SKU)),
                                      file.rows[i].Quantity,
                                      IF "Location" \in file.columns
                                      THEN clean_loc(file.rows[i].Location)
                                      ELSE "Other",
                                      report_date.value[1])]]

\* Python's order of the (normalized) SKU strings.
Ord == [c \in {"A", "B"} |-> IF c = "A" THEN 65 ELSE 66]

RECURSIVE StrLess(_, _)
StrLess(a, b) ==
    IF b = <<>> THEN FALSE
    ELSE IF a = <<>> THEN TRUE
    ELSE IF Ord[Head(a)] # Ord[Head(b)] THEN Ord[Head(a)] < Ord[Head(b)]
    ELSE StrLess(Tail(a), Tail(b))

\* Row a sorts strictly before row b: Report_End_Date descending, then SKU
\* ascending.
SortsBefore(a, b) ==
    \/ a.Report_End_Date > b.Report_End_Date
    \/ a.Report_End_Date = b.Report_End_Date /\ StrLess(a.SKU, b.SKU)

RECURSIVE InsertRow(_, _)
InsertRow(sorted, x) ==
    IF sorted = <<>> THEN <<x>>
    ELSE IF SortsBefore(x, Head(sorted)) THEN <<x>> \o sorted
    ELSE <<Head(sorted)>> \o InsertRow(Tail(sorted), x)

RECURSIVE sort_values(_)
\* master_df.sort_values(by=['Report_End_Date', 'SKU'], ascending=[False, True]):
\* rows with equal keys keep their order
sort_values(df) ==
    IF df = <<>> THEN <<>>
    ELSE InsertRow(sort_values(SubSeq(df, 1, Len(df) - 1)), df[Len(df)])

\* The rows of master_df that the merge of new_data removes.
overwritten(master_df, new_data) ==
    LET Same(row) == row.Report_End_Date = new_data[1].Report_End_Date
    IN  SelectSeq(master_df, Same)

\* Mutant: the rows of the report date are not removed before the append.
smart_merge_append_only(master_df, new_data) == master_df \o new_data

\* 5. SMART MERGE, for a new_data of at least one row.
smart_merge(master_df, new_data) ==
    LET Other(row) == row.Report_End_Date # new_data[1].Report_End_Date
    IN  SelectSeq(master_df, Other) \o new_data

\* The snapshot files that can turn up in the source folder.  All of them
\* have a name that starts with product-sales and ends with .csv.
SnapshotFile(matches, readable, columns, rows) ==
    [matches |-> matches, readable |-> readable, columns |-> columns, rows |-> rows]

RawRow(sku, quantity, location) ==
    [SKU |-> sku, Quantity |-> quantity, Location |-> location]

AllColumns == {"SKU", "Quantity", "Location"}

SnapshotFiles ==
    [name \in {"product-sales-2025-11-01-2025-12-01.csv",
               "product-sales-2025-11-15-2025-12-01.csv",
               "product-sales-2025-12-01-2025-11-01.csv",
               "product-sales-2025-09-01-2025-10-01.csv",
               "product-sales-2025-02-01-2025-02-30.csv",
               "product-sales-2025-12-01.csv",
               "product-sales-2025-08-01-2025-09-01.csv",
               "product-sales-2025-07-01-2025-08-01.csv"} |->
        CASE name = "product-sales-2025-11-01-2025-12-01.csv" ->
                SnapshotFile(<<<<2025, 11, 1>>, <<2025, 12, 1>>>>, TRUE, AllColumns,
                             <<RawRow(<<"A">>, 1, <<"H", "i", "l", "l">>)>>)
          [] name = "product-sales-2025-11-15-2025-12-01.csv" ->
                \* the same SKU at the same location on two rows
                SnapshotFile(<<<<2025, 11, 15>>, <<2025, 12, 1>>>>, TRUE, AllColumns,
                             <<RawRow(<<"a">>, 2, <<"H", "I", "L", "L">>),
                               RawRow(<<"A">>, 3, <<"H", "i", "l", "l">>)>>)
          [] name = "product-sales-2025-12-01-2025-11-01.csv" ->
                \* the later date first
                SnapshotFile(<<<<2025, 12, 1>>, <<2025, 11, 1>>>>, TRUE, AllColumns,
                             <<RawRow(<<"B">>, 1, <<"D", "e", "p", "o", "t">>)>>)
          [] name = "product-sales-2025-09-01-2025-10-01.csv" ->
                \* the header line and no data row
                SnapshotFile(<<<<2025, 9, 1>>, <<2025, 10, 1>>>>, TRUE, AllColumns, <<>>)
          [] name = "product-sales-2025-02-01-2025-02-30.csv" ->
                \* an end date that is no calendar date
                SnapshotFile(<<<<2025, 2, 1>>, <<2025, 2, 30>>>>, TRUE, AllColumns,
                             <<RawRow(<<"A">>, 1, <<"H", "i", "l", "l">>)>>)
          [] name = "product-sales-2025-12-01.csv" ->
                \* one date only
                SnapshotFile(<<<<2025, 12, 1>>>>, TRUE, AllColumns,
                             <<RawRow(<<"A">>, 1, <<"H", "i", "l", "l">>)>>)
          [] name = "product-sales-2025-08-01-2025-09-01.csv" ->
                \* content that read_csv cannot parse
                SnapshotFile(<<<<2025, 8, 1>>, <<2025, 9, 1>>>>, FALSE, {}, <<>>)
          [] name = "product-sales-2025-07-01-2025-08-01.csv" ->
                \* no SKU column
                SnapshotFile(<<<<2025, 7, 1>>, <<2025, 8, 1>>>>, TRUE,
                             {"Quantity", "Location"},
                             <<RawRow(<<>>, 1, <<"H", "i", "l", "l">>)>>)]

FileNames == DOMAIN SnapshotFiles

(***************************************************************************)
(* hh_ingest.py: update_memory_bank, one step at a time.  The source       *)
(* folder changes only between two runs (a file that arrives during a run  *)
(* is not in the listing the run works on).                                *)
(***************************************************************************)
IngestMsg(level, text, file) == [level |-> level, text |-> text, file |-> file]

IngestState(pc, files, master_df, updates_made, log) ==
    [pc |-> pc, files |-> files, master_df |-> master_df,
     updates_made |-> updates_made, log |-> log]

\* No run of update_memory_bank in progress.
IdleIngest == IngestState("idle", <<>>, <<>>, FALSE, <<>>)

\* The orders in which os.listdir can return the files.
Listings(S) ==
    {order \in [1..Cardinality(S) -> S] :
        \A i, j \in 1..Cardinality(S) : i # j => order[i] # order[j]}

\* A report is exported into the source folder.
Download ==
    /\ ingest.pc = "idle"
    /\ Cardinality(inbox) < MaxInbox
    /\ \E f \in FileNames \ inbox : inbox' = inbox \cup {f}
    /\ UNCHANGED <<rulesVars, ordering, reconVars, transfers, archive, store, ingest, analysis, otherVars>>

\* The user deletes a file of the source folder.
Remove ==
    /\ ingest.pc = "idle"
    /\ \E f \in inbox : inbox' = inbox \ {f}
    /\ UNCHANGED <<rulesVars, ordering, reconVars, transfers, archive, store, ingest, analysis, otherVars>>

\* update_memory_bank up to the loop: configuration, load of the master
\* bank, listing of the source folder.
StartIngest ==
    /\ ingest.pc = "idle"
    /\ \E configured \in BOOLEAN,
          read_ok \in (IF store = <<>> THEN {TRUE} ELSE BOOLEAN),
          files \in Listings(inbox) :
          LET loaded ==
                  IF store = <<>>
                  THEN <<IngestMsg("info", "Creating new Master Bank.", "")>>
                  ELSE IF read_ok THEN <<>>
                  ELSE <<IngestMsg("warning", "Master DB Corrupt. Starting Fresh.", "")>>
              master_df == IF read_ok THEN store ELSE <<>>
          IN  ingest' =
                 IF ~configured
                 THEN IngestState("done", <<>>, <<>>, FALSE,
                         <<IngestMsg("error", "Memory Bank Folder is not set!", "")>>)
                 ELSE IF files = <<>>
                 THEN IngestState("done", <<>>, master_df, FALSE,
                         loaded \o <<IngestMsg("info", "No 'product-sales' CSVs found", "")>>)
                 ELSE IngestState("files", files, master_df, FALSE, loaded)
    /\ UNCHANGED <<rulesVars, ordering, reconVars, transfers, inbox, archive, store, analysis, otherVars>>

\* One pass of the loop over the files: lock check, ingest_file, merge,
\* archive.  An exception that leaves ingest_file, or the merge, ends the run.
ProcessFile ==
    /\ ingest.pc = "files"
    /\ ingest.files # <<>>
    /\ \E locked \in BOOLEAN, moved \in BOOLEAN :
          LET f == Head(ingest.files)
              rest == Tail(ingest.files)
              new_data == ingest_file(SnapshotFiles[f])
              reading == <<IngestMsg("info", "Reading Snapshot", f)>>
              Skip(msgs) ==
                  /\ ingest' = [ingest EXCEPT !.files = rest, !.log = @ \o msgs]
                  /\ UNCHANGED <<inbox, archive>>
              Raise(msgs) ==
                  /\ ingest' = [ingest EXCEPT !.pc = "raised", !.log = @ \o msgs]
                  /\ UNCHANGED <<inbox, archive>>
          IN  IF locked
              THEN Skip(<<IngestMsg("warning", "Skipping (File is open/locked)", f)>>)
              ELSE IF new_data.kind = "raised" THEN Raise(<<>>)
              ELSE IF new_data.kind = "no_date"
              THEN Skip(<<IngestMsg("warning", "SKIPPING: Could not find valid date range", f)>>)
              ELSE IF new_data.kind = "error"
              THEN Skip(reading \o <<IngestMsg("error", "Error processing", f)>>)
              ELSE IF new_data.rows = <<>> THEN Raise(reading)
              ELSE /\ ingest' =
                         [ingest EXCEPT
                            !.files = rest,
                            !.master_df = smart_merge(@, new_data.rows),
                            !.updates_made = TRUE,
                            !.log = @ \o reading
                                \o (IF overwritten(ingest.master_df, new_data.rows) # <<>>
                                    THEN <<IngestMsg("info", "Overwriting records", f)>>
                                    ELSE <<>>)
                                \o (IF moved
                                    THEN <<IngestMsg("info", "Moved to Archive", f)>>
                                    ELSE <<IngestMsg("warning", "Could not move file", f)>>)]
                   /\ inbox' = IF moved THEN inbox \ {f} ELSE inbox
                   /\ archive' = IF moved THEN archive \cup {f} ELSE archive
    /\ UNCHANGED <<rulesVars, ordering, reconVars, transfers, store, analysis, otherVars>>

\* 7. Save Master: the only write of the master bank.
Persist ==
    /\ ingest.pc = "files"
    /\ ingest.files = <<>>
    /\ IF ingest.updates_made
       THEN \E written \in BOOLEAN :
               IF written
               THEN /\ store' = sort_values(ingest.master_df)
                    /\ ingest' = [ingest EXCEPT
                                    !.pc = "done",
                                    !.master_df = sort_values(@),
                                    !.log = @ \o <<IngestMsg("info", "Memory Bank Saved!", "")>>]
               ELSE /\ store' = store
                    /\ ingest' = [ingest EXCEPT !.pc = "raised",
                                                !.master_df = sort_values(@)]
       ELSE /\ store' = store
            /\ ingest' = [ingest EXCEPT
                            !.pc = "done",
                            !.log = @ \o <<IngestMsg("info", "No valid updates processed.", "")>>]
    /\ UNCHANGED <<rulesVars, ordering, reconVars, transfers, inbox, archive, analysis, otherVars>>

\* update_memory_bank returns, or the exception leaves it.
ReturnIngest ==
    /\ ingest.pc \in {"done", "raised"}
    /\ ingest' = IdleIngest
    /\ UNCHANGED <<rulesVars, ordering, reconVars, transfers, inbox, archive, store, analysis, otherVars>>

(***************************************************************************)
(* hh_logic.py and excel_writer.py: the control flow of run_logic_pandas   *)
(* around the report file and finished_callback.  callbacks is the         *)
(* sequence of the arguments finished_callback has been invoked with;      *)
(* report is the number of report files the run has written.  The          *)
(* callback is the caller's: it may return or raise.                       *)
(***************************************************************************)
AnalysisState(pc, file_paths, report_days, days, report, callbacks, error) ==
    [pc |-> pc, file_paths |-> file_paths, report_days |-> report_days,
     days |-> days, report |-> report, callbacks |-> callbacks, error |-> error]

\* file_paths: which of the keys inventory, sales and po hold a path.
FilePaths(inventory, sales, po) == [inventory |-> inventory, sales |-> sales, po |-> po]

\* No run of run_logic_pandas in progress.
IdleAnalysis ==
    AnalysisState("idle", FilePaths(FALSE, FALSE, FALSE),
                  [kind |-> "empty", value |-> Num(0)], Num(0), 0, <<>>, "")

\* The try block up to the required files: the report days are parsed, a
\* missing inventory or sales path raises.
StartAnalysis ==
    /\ analysis.pc = "idle"
    /\ \E inventory \in BOOLEAN, sales \in BOOLEAN, po \in BOOLEAN,
          text \in DaysTexts :
          LET file_paths == FilePaths(inventory, sales, po)
              days == parse_report_days(text)
          IN  analysis' =
                 IF ~inventory
                 THEN AnalysisState("except", file_paths, text, days, 0, <<>>,
                                    "Inventory file is required!")
                 ELSE IF ~sales
                 THEN AnalysisState("except", file_paths, text, days, 0, <<>>,
                                    "Sales file is required!")
                 ELSE AnalysisState("loading", file_paths, text, days, 0, <<>>, "")
    /\ UNCHANGED <<rulesVars, ordering, reconVars, transfers, ingestVars, otherVars>>

\* Sections 1 to 6: the extracts are read and the metrics computed, or an
\* exception is raised (a file that cannot be read, a column that is missing).
LoadAndCompute ==
    /\ analysis.pc = "loading"
    /\ \E raised \in BOOLEAN :
          analysis' = IF raised
                      THEN [analysis EXCEPT !.pc = "except", !.error = "load"]
                      ELSE [analysis EXCEPT !.pc = "writing"]
    /\ UNCHANGED <<rulesVars, ordering, reconVars, transfers, ingestVars, otherVars>>

\* write_excel_report: the workbook is built in memory, writer.close()
\* writes the file, then the file is opened with os.startfile or, if that
\* raises, with subprocess.call(['open', ...]), whose exception is not caught.
WriteExcelReport ==
    /\ analysis.pc = "writing"
    /\ \E built \in BOOLEAN, closed \in BOOLEAN, startfile \in BOOLEAN,
          open \in BOOLEAN :
          analysis' =
             IF ~built THEN [analysis EXCEPT !.pc = "except", !.error = "build"]
             ELSE IF ~closed THEN [analysis EXCEPT !.pc = "except", !.error = "close"]
             ELSE IF startfile \/ open
             THEN [analysis EXCEPT !.pc = "written", !.report = @ + 1]
             ELSE [analysis EXCEPT !.pc = "except", !.report = @ + 1, !.error = "open"]
    /\ UNCHANGED <<rulesVars, ordering, reconVars, transfers, ingestVars, otherVars>>

\* finished_callback(True), the last statement of the try block.
CallbackTrue ==
    /\ analysis.pc = "written"
    /\ \E raised \in BOOLEAN :
          analysis' = [analysis EXCEPT
                         !.callbacks = Append(@, TRUE),
                         !.pc = IF raised THEN "except" ELSE "returned",
                         !.error = IF raised THEN "callback" ELSE @]
    /\ UNCHANGED <<rulesVars, ordering, reconVars, transfers, ingestVars, otherVars>>

\* except Exception: the error is logged and finished_callback(False) called.
ExceptHandler ==
    /\ analysis.pc = "except"
    /\ \E raised \in BOOLEAN :
          analysis' = [analysis EXCEPT
                         !.callbacks = Append(@, FALSE),
                         !.pc = IF raised THEN "raised" ELSE "returned"]
    /\ UNCHANGED <<rulesVars, ordering, reconVars, transfers, ingestVars, otherVars>>

\* run_logic_pandas returns, or the exception of the callback leaves it.
ReturnAnalysis ==
    /\ analysis.pc \in {"returned", "raised"}
    /\ analysis' = IdleAnalysis
    /\ UNCHANGED <<rulesVars, ordering, reconVars, transfers, ingestVars, otherVars>>

(***************************************************************************)
(* hh_history.py: the consolidated history table and the rolling           *)
(* velocities computed from it.  A date is the number of its day (Python's *)
(* date.toordinal), so that a Timedelta of n days is n.                    *)
(***************************************************************************)
RECURSIVE days_before_month(_, _)
days_before_month(year, month) ==
    IF month = 1 THEN 0
    ELSE days_before_month(year, month - 1) + DaysIn(year, month - 1)

toordinal(token) ==
    LET y == token[1] - 1
    IN  365 * y + (y \div 4) - (y \div 100) + (y \div 400)
        + days_before_month(token[1], token[2]) + token[3]

\* extract_date_from_filename: the second date of the name, None (<<>>) when
\* the name has no two dates or the second one is not a date.
extract_date_from_filename(matches) ==
    IF Len(matches) >= 2
    THEN IF to_datetime(matches[2]).raised THEN <<>>
         ELSE <<toordinal(matches[2])>>
    ELSE <<>>

\* The product-sales files that can lie in the history folder, in the order
\* of their names (sorted(glob)).
HistoryFileNames ==
    <<"product-sales-2025-02-01-2025-02-30.csv",
      "product-sales-2025-10-03-2025-11-02.csv",
      "product-sales-2025-11-01-2025-12-01.csv",
      "product-sales-2025-12-01-2025-12-31.csv">>

HistoryFiles ==
    [name \in {HistoryFileNames[i] : i \in DOMAIN HistoryFileNames} |->
        CASE name = "product-sales-2025-02-01-2025-02-30.csv" ->
                 SnapshotFile(<<<<2025, 2, 1>>, <<2025, 2, 30>>>>, TRUE, AllColumns,
                              <<RawRow(SkuA, 1, "Hill")>>)
          [] name = "product-sales-2025-10-03-2025-11-02.csv" ->
                 SnapshotFile(<<<<2025, 10, 3>>, <<2025, 11, 2>>>>, TRUE, AllColumns,
                              <<RawRow(SkuA, 2, "Hill"), RawRow(SkuB, 1, "Hill")>>)
          [] name = "product-sales-2025-11-01-2025-12-01.csv" ->
                 SnapshotFile(<<<<2025, 11, 1>>, <<2025, 12, 1>>>>, TRUE, AllColumns,
                              <<RawRow(SkuA, 1, "Hill"), RawRow(SkuA, 2, "Valley")>>)
          [] name = "product-sales-2025-12-01-2025-12-31.csv" ->
                 SnapshotFile(<<<<2025, 12, 1>>, <<2025, 12, 31>>>>, TRUE, AllColumns,
                              <<RawRow(SkuA, 3, "Hill")>>)]

\* The files of a folder, sorted by name.
RECURSIVE csv_files(_, _)
csv_files(folder, i) ==
    IF i > Len(HistoryFileNames) THEN <<>>
    ELSE (IF HistoryFileNames[i] \in folder THEN <<HistoryFileNames[i]>> ELSE <<>>)
         \o csv_files(folder, i + 1)

\* The frame that the loop of build_sales_history appends for a file: none
\* for a file without a date or that cannot be read.
history_frame(name) ==
    LET file == HistoryFiles[name]
        report_end_date == extract_date_from_filename(file.matches)
    IN  IF report_end_date = <<>> \/ ~file.readable THEN <<>>
        ELSE [i \in DOMAIN file.rows |->
                 HistoryRow(file.rows[i].SKU, file.rows[i].Quantity,
                            file.rows[i].Location, report_end_date[1])]

\* The message logged for a file.
history_message(name) ==
    LET file == HistoryFiles[name]
    IN  IF extract_date_from_filename(file.matches) = <<>>
        THEN IngestMsg("warning", "Could not parse date, skipping", name)
        ELSE IF ~file.readable THEN IngestMsg("error", "Error reading", name)
        ELSE IngestMsg("info", "rows", name)

RECURSIVE concat_frames(_)
concat_frames(names) ==
    IF names = <<>> THEN <<>>
    ELSE history_frame(Head(names)) \o concat_frames(Tail(names))

\* drop_duplicates(subset=['SKU', 'Report_End_Date'], keep='last')
drop_duplicates(df) ==
    LET Last(i) == \A j \in (i + 1)..Len(df) :
                      ~(df[j].SKU = df[i].SKU
                        /\ df[j].Report_End_Date = df[i].Report_End_Date)
        kept == {i \in DOMAIN df : Last(i)}
        RECURSIVE Pick(_)
        Pick(i) == IF i > Len(df) THEN <<>>
                   ELSE (IF i \in kept THEN <<df[i]>> ELSE <<>>) \o Pick(i + 1)
    IN  Pick(1)

\* Row a sorts strictly before row b in sort_values(['SKU', 'Report_End_Date']).
HistoryBefore(a, b) ==
    \/ StrLess(a.SKU, b.SKU)
    \/ a.SKU = b.SKU /\ a.Report_End_Date < b.Report_End_Date

RECURSIVE HistoryInsert(_, _)
HistoryInsert(sorted, x) ==
    IF sorted = <<>> THEN <<x>>
    ELSE IF HistoryBefore(x, Head(sorted)) THEN <<x>> \o sorted
    ELSE <<Head(sorted)>> \o HistoryInsert(Tail(sorted), x)

RECURSIVE history_sort_values(_)
history_sort_values(df) ==
    IF df = <<>> THEN <<>>
    ELSE HistoryInsert(history_sort_values(SubSeq(df, 1, Len(df) - 1)), df[Len(df)])

\* The table build_sales_history consolidates from the frames of the files.
consolidated(names) == history_sort_values(drop_duplicates(concat_frames(names)))

HistoryState(pc, df_history, log, query, result) ==
    [pc |-> pc, df_history |-> df_history, log |-> log, query |-> query,
     result |-> result]

NoQuery == [sku |-> <<>>, location |-> <<>>, as_of_date |-> <<>>]

Velocities(qty_4w, qty_12w, qty_lifetime, vel_4w, vel_12w, vel_lifetime, trend) ==
    [qty_4w |-> qty_4w, qty_12w |-> qty_12w, qty_lifetime |-> qty_lifetime,
     vel_4w |-> vel_4w, vel_12w |-> vel_12w, vel_lifetime |-> vel_lifetime,
     trend |-> trend]

Trend(tag, pct) == [tag |-> tag, pct |-> pct]

NoVelocities ==
    Velocities(0, 0, 0, Num(0), Num(0), Num(0), Trend("No data", 0))

IdleHistory == HistoryState("idle", <<>>, <<>>, NoQuery, NoVelocities)

RECURSIVE QuantitySum(_)
\* df['Quantity'].sum()
QuantitySum(df) == IF df = <<>> THEN 0 ELSE Head(df).Quantity + QuantitySum(Tail(df))

\* Series.median() of the dates of a frame of at least one row, doubled (the
\* median of an even number of dates is the mean of the middle two).
median_doubled(df) ==
    LET n == Len(df)
        Kth(k) == CHOOSE v \in {df[i].Report_End_Date : i \in 1..n} :
                     /\ Cardinality({i \in 1..n : df[i].Report_End_Date < v}) < k
                     /\ Cardinality({i \in 1..n : df[i].Report_End_Date <= v}) >= k
    IN  IF n % 2 = 1 THEN 2 * Kth((n + 1) \div 2)
        ELSE Kth(n \div 2) + Kth(n \div 2 + 1)

\* format(x, '.0f'): the nearest integer, a tie to the even one.
round_0f(x) ==
    LET q == Floor(x)
        rem2 == 2 * (x[1] - q * x[2])
    IN  IF rem2 < x[2] THEN q
        ELSE IF rem2 > x[2] THEN q + 1
        ELSE IF q % 2 = 0 THEN q ELSE q + 1

\* Trend: the recent half against the older half of the 12-week window.
trend_of(df_12w) ==
    IF Len(df_12w) >= 2
    THEN LET mid_point == median_doubled(df_12w)
             Recent(row) == 2 * row.Report_End_Date >= mid_point
             Older(row) == 2 * row.Report_End_Date < mid_point
             recent == QuantitySum(SelectSeq(df_12w, Recent))
             older == QuantitySum(SelectSeq(df_12w, Older))
             pct_change == RMul(Rat(recent - older, older), Num(100))
         IN  IF older > 0
             THEN IF RGt(pct_change, Num(20))
                  THEN Trend("Growing", round_0f(pct_change))
                  ELSE IF RLt(pct_change, Num(-20))
                  THEN Trend("Declining", round_0f(pct_change))
                  ELSE Trend("Stable", 0)
             ELSE Trend("Stable", 0)
    ELSE Trend("Stable", 0)

\* Today, for a query without as_of_date.
HistoryToday == <<2026, 1, 10>>

\* df_sku[df_sku['Report_End_Date'] >= (as_of_ts - pd.Timedelta(days=days))]
window(df_sku, as_of_ts, days) ==
    LET In(row) == row.Report_End_Date >= as_of_ts - days
    IN  SelectSeq(df_sku, In)

\* compute_rolling_velocities(df_history, sku, location, as_of_date): location
\* and as_of_date are None (<<>>) or <<value>>; every frame of the model has
\* the Location column.
compute_rolling_velocities(df_history, sku, location, as_of_date) ==
    LET as_of_ts == IF as_of_date = <<>> THEN toordinal(HistoryToday)
                    ELSE as_of_date[1]
        OfSku(row) == row.SKU = sku
        AtLocation(row) == row.Location = location[1]
        of_sku == SelectSeq(df_history, OfSku)
        df_sku == IF location # <<>> THEN SelectSeq(of_sku, AtLocation) ELSE of_sku
        df_4w == window(df_sku, as_of_ts, 28)
        df_12w == window(df_sku, as_of_ts, 84)
    IN  IF Len(df_sku) = 0 THEN NoVelocities
        ELSE Velocities(QuantitySum(df_4w), QuantitySum(df_12w), QuantitySum(df_sku),
                        IF Len(df_4w) > 0 THEN Rat(QuantitySum(df_4w), 4) ELSE Num(0),
                        IF Len(df_12w) > 0 THEN Rat(QuantitySum(df_12w), 12)
                        ELSE Num(0),
                        Rat(QuantitySum(df_sku), Len(df_sku)),
                        trend_of(df_12w))

\* build_sales_history on a folder of product-sales files: the table is
\* returned (and kept as df_history) when it could be saved, else None.
BuildSalesHistory ==
    /\ history.pc = "idle"
    /\ \E folder \in SUBSET {HistoryFileNames[i] : i \in DOMAIN HistoryFileNames},
          saved \in BOOLEAN :
          LET names == csv_files(folder, 1)
              found == <<IngestMsg("info", "Found historical sales files", "")>>
                       \o [i \in DOMAIN names |-> history_message(names[i])]
              frames == concat_frames(names)
              table == consolidated(names)
          IN  history' =
                 IF names = <<>>
                 THEN HistoryState("none", <<>>,
                          <<IngestMsg("warning", "No product-sales CSVs found", "")>>,
                          NoQuery, NoVelocities)
                 ELSE IF \A i \in DOMAIN names : history_frame(names[i]) = <<>>
                 THEN HistoryState("none", <<>>,
                          found \o <<IngestMsg("error", "No data was loaded", "")>>,
                          NoQuery, NoVelocities)
                 ELSE IF ~saved
                 THEN HistoryState("none", <<>>,
                          found \o <<IngestMsg("error", "Error saving history", "")>>,
                          NoQuery, NoVelocities)
                 ELSE HistoryState("built", table,
                          found \o <<IngestMsg("info", "Saved", "")>>,
                          NoQuery, NoVelocities)
    /\ UNCHANGED <<rulesVars, ordering, reconVars, transfers, ingestVars, analysis, join, gui,
                   rival>>

HistoryAsOfDates == {<<>>, <<toordinal(<<2025, 12, 1>>)>>, <<toordinal(<<2025, 12, 31>>)>>}

\* A query on the table that was built.
ComputeRollingVelocities ==
    /\ history.pc \in {"built", "queried"}
    /\ \E sku \in {SkuA, SkuB}, location \in {<<>>, <<"Hill">>, <<"Valley">>},
          as_of_date \in HistoryAsOfDates :
          history' =
             [history EXCEPT
                 !.pc = "queried",
                 !.query = [sku |-> sku, location |-> location,
                            as_of_date |-> as_of_date],
                 !.result = compute_rolling_velocities(history.df_history, sku,
                                                       location, as_of_date)]
    /\ UNCHANGED <<rulesVars, ordering, reconVars, transfers, ingestVars, analysis, join, gui,
                   rival>>

(***************************************************************************)
(* hh_logic.py: the merge of the inventory, sales, purchase-order and      *)
(* transfer extracts into the master table (4. MERGE DATASETS).  The SKU   *)
(* cells are strings; the sales rows are those of one location key.        *)
(***************************************************************************)
MaxInventory == 2

\* The SKU cells that an extract can hold for the products A and B.
SkuCells ==
    {<<"A">>, <<"a">>, <<"A", ".", "0">>, <<" ", "A">>, <<"B">>, <<"-">>}

InventoryRows == {[sku |-> s] : s \in SkuCells}
SalesRows == {[sku |-> s, qty |-> 1] : s \in SkuCells}
JoinPORows == {[sku |-> s, qty |-> 1] : s \in SkuCells}
JoinTransferRows ==
    {[sku |-> s, source |-> <<"H", "i", "l", "l">>,
      dest |-> <<"j", "a", "s", "p", "e", "r">>, qty |-> 1] : s \in SkuCells}

RECURSIVE SumExact(_, _)
\* the sum of the quantities of the rows whose SKU cell is sku
SumExact(rows, sku) ==
    IF rows = <<>> THEN 0
    ELSE (IF Head(rows).sku = sku THEN Head(rows).qty ELSE 0)
         + SumExact(Tail(rows), sku)

\* df_sales.pivot_table(index=col_map['sku'], ..., aggfunc='sum'): the
\* quantities summed by the SKU cell as it stands in the sales extract.
pivot_sales(df_sales) ==
    [sku \in {df_sales[i].sku : i \in DOMAIN df_sales} |-> SumExact(df_sales, sku)]

\* The master table: one row per inventory row, keyed by its SKU with a
\* trailing .0 removed, left-joined with the sales pivot, the transfer
\* Series and the purchase orders.
merge_datasets(df_inv, df_sales, df_po, df_transfers) ==
    LET po_series == _process_po_data(df_po)
        transfer_data == _process_transfer_data(df_transfers)
    IN  [i \in DOMAIN df_inv |->
            LET sku == strip_float_suffix(df_inv[i].sku)
            IN  [SKU |-> sku,
                 Sold |-> Joined(pivot_sales(df_sales), sku),
                 PO_Qty |-> Joined(po_series, sku),
                 Trans_Hill |-> Joined(transfer_data.Trans_Hill, sku),
                 Trans_To_Jasper |-> Joined(transfer_data.Trans_To_Jasper, sku)]]

JoinState(pc, df_inv, df_sales, df_po, df_transfers, master_table, log) ==
    [pc |-> pc, df_inv |-> df_inv, df_sales |-> df_sales, df_po |-> df_po,
     df_transfers |-> df_transfers, master |-> master_table, log |-> log]

IdleJoin == JoinState("idle", <<>>, <<>>, <<>>, <<>>, <<>>, <<>>)

\* The inventory extracts: each lists up to MaxInventory different SKU cells.
Inventories ==
    {SetToSeq(S) : S \in {T \in SUBSET InventoryRows :
                             Cardinality(T) >= 1 /\ Cardinality(T) <= MaxInventory}}

\* run_logic_pandas from "Processing Sales Data..." to the joined master.
MergeDatasets ==
    /\ join.pc = "idle"
    /\ \E df_inv \in Inventories, df_sales \in Extracts(SalesRows, 1),
          df_po \in Extracts(JoinPORows, 1),
          df_transfers \in Extracts(JoinTransferRows, 1) :
          join' = JoinState("merged", df_inv, df_sales, df_po, df_transfers,
                            merge_datasets(df_inv, df_sales, df_po, df_transfers),
                            <<"Processing Sales Data...", "Merging Data...",
                              "Running Algorithms (Vectorized)...">>)
    /\ UNCHANGED <<rulesVars, ordering, reconVars, transfers, ingestVars, analysis, history, gui,
                   rival>>

(***************************************************************************)
(* hh_gui_modern.py: the window.  The UI thread runs generate_report (the  *)
(* click on the button) and _process_log_queue (every 100 ms); each        *)
(* analysis run is a worker thread that runs run_logic_pandas with         *)
(* log_func = self.log and finished_callback = self.on_complete, so        *)
(* on_complete runs on the worker thread.  A message is its text and the   *)
(* number of the put that enqueued it.                                     *)
(***************************************************************************)
MaxRuns == 2
MaxWorkerLogs == 1

\* queue.Queue(): maxsize 0, a queue without bound.
LogQueueMaxsize == 0

Worker(pc, logged, callbacks) == [pc |-> pc, logged |-> logged, callbacks |-> callbacks]

GuiState(gen_btn, progress, maxsize, log_queue, log_text, puts, workers, dialog) ==
    [gen_btn |-> gen_btn, progress |-> progress, maxsize |-> maxsize,
     log_queue |-> log_queue, log_text |-> log_text, puts |-> puts,
     workers |-> workers, dialog |-> dialog]

\* _init_common: the empty queue, the button as create_ui makes it.
InitCommon == GuiState("normal", "stopped", LogQueueMaxsize, <<>>, <<>>, 0, <<>>, "")

\* self.log(msg): log_queue.put(msg); a queue of maxsize 0 is never full.
put(g, text) ==
    [g EXCEPT !.log_queue = Append(@, [n |-> g.puts + 1, text |-> text]),
              !.puts = @ + 1]

\* The line that _process_log_queue inserts: f"[{ts}] {msg}\n".
Line(msg) == <<"[", "HH:MM:SS", "] ", msg, "\n">>

\* on_complete(success) up to the message box: progress stopped, button
\* enabled again, the outcome logged.
on_complete(g, success) ==
    put([g EXCEPT !.progress = "stopped", !.gen_btn = "normal"],
        IF success THEN "Report generated and opened!"
        ELSE "Generation failed - check log above")

\* generate_report: the click on the button (a disabled button has no
\* command).  A missing inventory or sales file ends it with a message box.
GenerateReport ==
    /\ gui.gen_btn = "normal"
    /\ Len(gui.workers) < MaxRuns
    /\ \E missing \in BOOLEAN :
          gui' = IF missing
                 THEN [gui EXCEPT !.dialog = "Missing Required Files"]
                 ELSE LET logged == put(gui, "PO Destination")
                          disabled == [logged EXCEPT !.gen_btn = "disabled",
                                                     !.progress = "started"]
                          started == put(disabled, "Starting analysis...")
                      IN  [started EXCEPT
                              !.workers = Append(@, Worker("running", 0, <<>>))]
    /\ UNCHANGED <<rulesVars, ordering, reconVars, transfers, ingestVars, analysis, history, join,
                   rival>>

\* A call of log_func by run_logic_pandas on a worker thread.
WorkerLog ==
    /\ \E w \in DOMAIN gui.workers :
          /\ gui.workers[w].pc = "running"
          /\ gui.workers[w].logged < MaxWorkerLogs
          /\ gui' = [put(gui, "Loading Data Files...") EXCEPT
                        !.workers[w].logged = @ + 1]
    /\ UNCHANGED <<rulesVars, ordering, reconVars, transfers, ingestVars, analysis, history, join,
                   rival>>

\* The try block of run_logic_pandas up to finished_callback(True), or the
\* exception that takes it to the handler.
WorkerCompute ==
    /\ \E w \in DOMAIN gui.workers, raised \in BOOLEAN :
          /\ gui.workers[w].pc = "running"
          /\ gui' = [gui EXCEPT !.workers[w].pc = IF raised THEN "except"
                                                  ELSE "written"]
    /\ UNCHANGED <<rulesVars, ordering, reconVars, transfers, ingestVars, analysis, history, join,
                   rival>>

\* finished_callback(True): on_complete(True) on the worker thread; the
\* message box it ends with returns, or raises into the handler of
\* run_logic_pandas.
OnCompleteTrue ==
    /\ \E w \in DOMAIN gui.workers, raised \in BOOLEAN :
          /\ gui.workers[w].pc = "written"
          /\ gui' = [on_complete(gui, TRUE) EXCEPT
                        !.workers[w].callbacks = Append(@, TRUE),
                        !.workers[w].pc = IF raised THEN "except" ELSE "ended",
                        !.dialog = IF raised THEN @ ELSE "Complete"]
    /\ UNCHANGED <<rulesVars, ordering, reconVars, transfers, ingestVars, analysis, history, join,
                   rival>>

\* except Exception: the error and the traceback are logged, then
\* finished_callback(False): on_complete(False); the thread ends.
WorkerExcept ==
    /\ \E w \in DOMAIN gui.workers, raised \in BOOLEAN :
          /\ gui.workers[w].pc = "except"
          /\ gui' = [on_complete(put(put(gui, "FATAL ERROR"), "Traceback"), FALSE)
                        EXCEPT
                        !.workers[w].callbacks = Append(@, FALSE),
                        !.workers[w].pc = "ended",
                        !.dialog = IF raised THEN @ ELSE "Error"]
    /\ UNCHANGED <<rulesVars, ordering, reconVars, transfers, ingestVars, analysis, history, join,
                   rival>>

\* One turn of the loop of _process_log_queue on the UI thread: get_nowait
\* and the insert of the line at the end of the log widget.
ProcessLogQueue ==
    /\ gui.log_queue # <<>>
    /\ gui' = [gui EXCEPT !.log_queue = Tail(@),
                          !.log_text = Append(@, Line(Head(gui.log_queue)))]
    /\ UNCHANGED <<rulesVars, ordering, reconVars, transfers, ingestVars, analysis, history, join,
                   rival>>

(***************************************************************************)
(* hh_ingest.py: two runs of update_memory_bank (two processes) on the     *)
(* same source folder, Archive and master bank.  Nothing in the code keeps *)
(* a second run from starting while one is under way.  A step of a run is  *)
(* given the run's locals before and after it; the folders and the store   *)
(* are shared.  A file that the other run has moved away fails the rename  *)
(* of the lock check.                                                      *)
(***************************************************************************)
\* Sections 1 to 4 of a run: configuration, load of the master bank,
\* listing of the source folder.
StartRun(self, next) ==
    /\ self.pc = "idle"
    /\ \E configured \in BOOLEAN,
          read_ok \in (IF store = <<>> THEN {TRUE} ELSE BOOLEAN),
          files \in Listings(inbox) :
          LET loaded ==
                  IF store = <<>>
                  THEN <<IngestMsg("info", "Creating new Master Bank.", "")>>
                  ELSE IF read_ok THEN <<>>
                  ELSE <<IngestMsg("warning", "Master DB Corrupt. Starting Fresh.", "")>>
              master_df == IF read_ok THEN store ELSE <<>>
          IN  next =
                 IF ~configured
                 THEN IngestState("done", <<>>, <<>>, FALSE,
                         <<IngestMsg("error", "Memory Bank Folder is not set!", "")>>)
                 ELSE IF files = <<>>
                 THEN IngestState("done", <<>>, master_df, FALSE,
                         loaded \o <<IngestMsg("info", "No 'product-sales' CSVs found", "")>>)
                 ELSE IngestState("files", files, master_df, FALSE, loaded)
    /\ UNCHANGED <<inbox, archive, store>>

\* One pass of the loop of a run.
ProcessRun(self, next) ==
    /\ self.pc = "files"
    /\ self.files # <<>>
    /\ \E locked \in BOOLEAN, moved \in BOOLEAN :
          LET f == Head(self.files)
              rest == Tail(self.files)
              new_data == ingest_file(SnapshotFiles[f])
              reading == <<IngestMsg("info", "Reading Snapshot", f)>>
              Skip(msgs) ==
                  /\ next = [self EXCEPT !.files = rest, !.log = @ \o msgs]
                  /\ UNCHANGED <<inbox, archive>>
              Raise(msgs) ==
                  /\ next = [self EXCEPT !.pc = "raised", !.log = @ \o msgs]
                  /\ UNCHANGED <<inbox, archive>>
          IN  IF locked \/ f \notin inbox
              THEN Skip(<<IngestMsg("warning", "Skipping (File is open/locked)", f)>>)
              ELSE IF new_data.kind = "raised" THEN Raise(<<>>)
              ELSE IF new_data.kind = "no_date"
              THEN Skip(<<IngestMsg("warning", "SKIPPING: Could not find valid date range", f)>>)
              ELSE IF new_data.kind = "error"
              THEN Skip(reading \o <<IngestMsg("error", "Error processing", f)>>)
              ELSE IF new_data.rows = <<>> THEN Raise(reading)
              ELSE /\ next =
                         [self EXCEPT
                            !.files = rest,
                            !.master_df = smart_merge(@, new_data.rows),
                            !.updates_made = TRUE,
                            !.log = @ \o reading
                                \o (IF overwritten(self.master_df, new_data.rows) # <<>>
                                    THEN <<IngestMsg("info", "Overwriting records", f)>>
                                    ELSE <<>>)
                                \o (IF moved
                                    THEN <<IngestMsg("info", "Moved to Archive", f)>>
                                    ELSE <<IngestMsg("warning", "Could not move file", f)>>)]
                   /\ inbox' = IF moved THEN inbox \ {f} ELSE inbox
                   /\ archive' = IF moved THEN archive \cup {f} ELSE archive
    /\ UNCHANGED store

\* 7. Save Master of a run.
PersistRun(self, next) ==
    /\ self.pc = "files"
    /\ self.files = <<>>
    /\ IF self.updates_made
       THEN \E written \in BOOLEAN :
               IF written
               THEN /\ store' = sort_values(self.master_df)
                    /\ next = [self EXCEPT
                                  !.pc = "done",
                                  !.master_df = sort_values(@),
                                  !.log = @ \o <<IngestMsg("info", "Memory Bank Saved!", "")>>]
               ELSE /\ store' = store
                    /\ next = [self EXCEPT !.pc = "raised",
                                           !.master_df = sort_values(@)]
       ELSE /\ store' = store
            /\ next = [self EXCEPT
                          !.pc = "done",
                          !.log = @ \o <<IngestMsg("info", "No valid updates processed.", "")>>]
    /\ UNCHANGED <<inbox, archive>>

\* A snapshot file arrives in the source folder before the runs.
Export ==
    /\ ingest.pc = "idle"
    /\ rival.pc = "idle"
    /\ Cardinality(inbox) < MaxInbox
    /\ \E f \in FileNames \ inbox : inbox' = inbox \cup {f}
    /\ UNCHANGED <<rulesVars, ordering, reconVars, transfers, archive, store, ingest, analysis,
                   history, join, gui, rival>>

FirstStart ==
    /\ StartRun(ingest, ingest')
    /\ UNCHANGED <<rulesVars, ordering, reconVars, transfers, analysis, history, join, gui, rival>>

FirstProcess ==
    /\ ProcessRun(ingest, ingest')
    /\ UNCHANGED <<rulesVars, ordering, reconVars, transfers, analysis, history, join, gui, rival>>

FirstPersist ==
    /\ PersistRun(ingest, ingest')
    /\ UNCHANGED <<rulesVars, ordering, reconVars, transfers, analysis, history, join, gui, rival>>

RivalStart ==
    /\ StartRun(rival, rival')
    /\ UNCHANGED <<rulesVars, ordering, reconVars, transfers, analysis, history, join, gui, ingest>>

RivalProcess ==
    /\ ProcessRun(rival, rival')
    /\ UNCHANGED <<rulesVars, ordering, reconVars, transfers, analysis, history, join, gui, ingest>>

RivalPersist ==
    /\ PersistRun(rival, rival')
    /\ UNCHANGED <<rulesVars, ordering, reconVars, transfers, analysis, history, join, gui, ingest>>

(***************************************************************************)
(* Python's float is the IEEE-754 binary64: every quotient, product and    *)
(* difference of floats is the exact result rounded to the nearest value   *)
(* with a 53-bit significand, ties to the even one.  A natural number is a *)
(* sequence of limbs, least significant first, without leading zeros; a    *)
(* float is [neg, m, e] standing for (-1)^neg * m * 2^e with               *)
(* 2^52 <= m < 2^53, or m = <<>> for zero.  Exponents stay far inside      *)
(* binary64's range for the quantities of a report.                        *)
(***************************************************************************)
SignificandBits == 53
LimbBits == 15
Limb == 2^LimbBits

Digit(a, i) == IF i <= Len(a) THEN a[i] ELSE 0

RECURSIVE BigTrim(_)
BigTrim(a) ==
    IF a # <<>> /\ a[Len(a)] = 0 THEN BigTrim(SubSeq(a, 1, Len(a) - 1)) ELSE a

RECURSIVE BigOfInt(_)
BigOfInt(n) == IF n = 0 THEN <<>> ELSE <<n % Limb>> \o BigOfInt(n \div Limb)

RECURSIVE BigToInt(_)
BigToInt(a) == IF a = <<>> THEN 0 ELSE Head(a) + Limb * BigToInt(Tail(a))

RECURSIVE AddFrom(_, _, _, _)
AddFrom(a, b, i, carry) ==
    IF i > Len(a) /\ i > Len(b) THEN (IF carry = 0 THEN <<>> ELSE <<carry>>)
    ELSE LET s == Digit(a, i) + Digit(b, i) + carry
         IN  <<s % Limb>> \o AddFrom(a, b, i + 1, s \div Limb)

BigAdd(a, b) == AddFrom(a, b, 1, 0)

RECURSIVE SubFrom(_, _, _, _)
SubFrom(a, b, i, borrow) ==
    IF i > Len(a) THEN <<>>
    ELSE LET d == a[i] - Digit(b, i) - borrow
         IN  <<IF d < 0 THEN d + Limb ELSE d>>
                 \o SubFrom(a, b, i + 1, IF d < 0 THEN 1 ELSE 0)

\* a - b for a >= b
BigSub(a, b) == BigTrim(SubFrom(a, b, 1, 0))

RECURSIVE CmpFrom(_, _, _)
CmpFrom(a, b, i) ==
    IF i = 0 THEN 0
    ELSE IF a[i] < b[i] THEN -1
    ELSE IF a[i] > b[i] THEN 1
    ELSE CmpFrom(a, b, i - 1)

\* -1, 0 or 1 as a < b, a = b or a > b
BigCmp(a, b) ==
    IF Len(a) < Len(b) THEN -1
    ELSE IF Len(a) > Len(b) THEN 1
    ELSE CmpFrom(a, b, Len(a))

RECURSIVE MulSmallFrom(_, _, _, _)
MulSmallFrom(a, k, i, carry) ==
    IF i > Len(a) THEN (IF carry = 0 THEN <<>> ELSE <<carry>>)
    ELSE LET p == a[i] * k + carry
         IN  <<p % Limb>> \o MulSmallFrom(a, k, i + 1, p \div Limb)

\* acc * Limb^j + a * (the lowest j limbs of b)
RECURSIVE MulFrom(_, _, _, _)
MulFrom(a, b, j, acc) ==
    IF j = 0 THEN acc
    ELSE MulFrom(a, b, j - 1,
                 BigAdd(MulSmallFrom(a, b[j], 1, 0),
                        IF acc = <<>> THEN acc ELSE <<0>> \o acc))

BigMul(a, b) == MulFrom(a, b, Len(b), <<>>)

BigDouble(a) == BigAdd(a, a)

RECURSIVE HalfFrom(_, _)
HalfFrom(a, i) ==
    IF i > Len(a) THEN <<>>
    ELSE <<(a[i] \div 2) + (Digit(a, i + 1) % 2) * (Limb \div 2)>>
             \o HalfFrom(a, i + 1)

BigHalf(a) == BigTrim(HalfFrom(a, 1))

BigOdd(a) == a # <<>> /\ a[1] % 2 = 1

RECURSIVE IntBits(_)
IntBits(n) == IF n = 0 THEN 0 ELSE 1 + IntBits(n \div 2)

\* The length of a in bits.
BigBits(a) ==
    IF a = <<>> THEN 0 ELSE (Len(a) - 1) * LimbBits + IntBits(a[Len(a)])

RECURSIVE BigShl(_, _)
BigShl(a, k) ==
    IF k = 0 \/ a = <<>> THEN a
    ELSE IF k >= LimbBits THEN BigShl(<<0>> \o a, k - LimbBits)
    ELSE BigShl(BigDouble(a), k - 1)

\* a shifted right by k bits, the last bit shifted out, and whether a bit
\* shifted out before it was set
RECURSIVE BigShr(_, _, _, _)
BigShr(a, k, round, sticky) ==
    IF k = 0 THEN [m |-> a, round |-> round, sticky |-> sticky]
    ELSE IF a = <<>> THEN [m |-> a, round |-> FALSE, sticky |-> sticky \/ round]
    ELSE IF sticky \/ round THEN BigShr(BigHalf(a), k - 1, BigOdd(a), TRUE)
    ELSE BigShr(BigHalf(a), k - 1, BigOdd(a), FALSE)

Float(neg, m, e) == [neg |-> neg, m |-> m, e |-> e]
Zero == Float(FALSE, <<>>, 0)

\* m * 2^e, plus a positive fraction of 2^e when sticky, rounded to nearest,
\* ties to even.
round_half_even(neg, m, e, sticky) ==
    IF m = <<>> THEN Zero
    ELSE IF BigBits(m) <= SignificandBits
    THEN Float(neg, BigShl(m, SignificandBits - BigBits(m)),
               e - (SignificandBits - BigBits(m)))
    ELSE LET k == BigBits(m) - SignificandBits
             t == BigShr(m, k, FALSE, sticky)
             up == t.round /\ (t.sticky \/ BigOdd(t.m))
             r == IF up THEN BigAdd(t.m, <<1>>) ELSE t.m
         IN  IF BigBits(r) > SignificandBits
             THEN Float(neg, BigHalf(r), e + k + 1)
             ELSE Float(neg, r, e + k)

\* float(n) of an int
FromInt(n) == round_half_even(n < 0, BigOfInt(IF n < 0 THEN -n ELSE n), 0, FALSE)

\* s.q holds the leading bits of the quotient by d and s.r twice the
\* remainder; n more bits are computed.
RECURSIVE DivStep(_, _, _)
DivStep(s, d, n) ==
    IF n = 0 THEN s
    ELSE IF BigCmp(s.r, d) >= 0
    THEN DivStep([q |-> BigAdd(BigDouble(s.q), <<1>>),
                  r |-> BigDouble(BigSub(s.r, d))], d, n - 1)
    ELSE DivStep([q |-> BigDouble(s.q), r |-> BigDouble(s.r)], d, n - 1)

\* a / b for b # 0
FDiv(a, b) ==
    IF a.m = <<>> THEN Zero
    ELSE LET qr == DivStep([q |-> <<>>, r |-> a.m], b.m, SignificandBits + 3)
         IN  round_half_even(a.neg # b.neg, qr.q,
                             a.e - b.e - (SignificandBits + 2), qr.r # <<>>)

\* a * b
FMul(a, b) ==
    IF a.m = <<>> \/ b.m = <<>> THEN Zero
    ELSE round_half_even(a.neg # b.neg, BigMul(a.m, b.m), a.e + b.e, FALSE)

FNeg(a) == IF a.m = <<>> THEN a ELSE Float(~a.neg, a.m, a.e)

\* a + b
FAdd(a, b) ==
    IF a.m = <<>> THEN b
    ELSE IF b.m = <<>> THEN a
    ELSE LET e == IF a.e < b.e THEN a.e ELSE b.e
             ma == BigShl(a.m, a.e - e)
             mb == BigShl(b.m, b.e - e)
         IN  IF a.neg = b.neg THEN round_half_even(a.neg, BigAdd(ma, mb), e, FALSE)
             ELSE IF BigCmp(ma, mb) >= 0
             THEN round_half_even(a.neg, BigSub(ma, mb), e, FALSE)
             ELSE round_half_even(b.neg, BigSub(mb, ma), e, FALSE)

\* a - b
FSub(a, b) == FAdd(a, FNeg(b))

\* -1, 0 or 1 as a < b, a == b or a > b
FCmp(a, b) ==
    LET d == FSub(a, b)
    IN  IF d.m = <<>> THEN 0 ELSE IF d.neg THEN -1 ELSE 1

FLt(a, b) == FCmp(a, b) < 0
FLe(a, b) == FCmp(a, b) <= 0
FGt(a, b) == FCmp(a, b) > 0
FGe(a, b) == FCmp(a, b) >= 0
FEq(a, b) == FCmp(a, b) = 0

\* math.ceil(a)
FCeil(a) ==
    IF a.m = <<>> THEN 0
    ELSE IF a.e >= 0
    THEN (IF a.neg THEN -1 ELSE 1) * BigToInt(BigShl(a.m, a.e))
    ELSE LET k == IF -a.e > SignificandBits THEN SignificandBits + 1 ELSE -a.e
             t == BigShr(a.m, k, FALSE, FALSE)
         IN  IF a.neg THEN -BigToInt(t.m)
             ELSE BigToInt(t.m) + (IF t.round \/ t.sticky THEN 1 ELSE 0)

\* The float of a decimal numeral or of an int, given as the rational n / d.
Binary64(r) ==
    IF r[2] = 1 THEN FromInt(r[1]) ELSE FDiv(FromInt(r[1]), FromInt(r[2]))

(***************************************************************************)
(* business_rules.py as Python computes it.  The operators of the sections *)
(* above compute with exact rationals; the ones below round every quotient *)
(* product and difference as binary64 does, so that a comparison of a      *)
(* rounded quotient (stock / velocity against reorder_point) can disagree  *)
(* with the sign of a rounded difference (velocity * target_wos - stock).  *)
(***************************************************************************)
\* InventoryMetrics.calculate_velocity
calculate_velocity_binary64(self) ==
    LET weeks == FDiv(Binary64(period_days(self)), FromInt(7))
    IN  IF FGt(weeks, Zero) THEN FDiv(Binary64(self.total_units_sold), weeks)
        ELSE Zero

\* StatusDeterminer.calculate_effective_wos; velocity and silence_threshold
\* are floats.
calculate_effective_wos_binary64(stock, incoming, velocity, silence_threshold) ==
    IF FLt(velocity, Zero) THEN [raised |-> TRUE, value |-> Zero]
    ELSE IF FEq(velocity, Zero)
    THEN [raised |-> FALSE, value |-> silence_threshold]
    ELSE LET total_available == (IF stock > 0 THEN stock ELSE 0) + incoming
         IN  [raised |-> FALSE, value |-> FDiv(FromInt(total_available), velocity)]

\* The tiers of determine_status below the zero-velocity tier.
status_of_tiers_binary64(velocity, wos, effective_wos, effective_oh, rules) ==
    IF FGe(velocity, Binary64(rules.hot_velocity))
    THEN IF FLt(wos, Binary64(rules.reorder_point))
         THEN IF FGe(effective_wos, Binary64(rules.reorder_point))
              THEN STATUS_GOOD
              ELSE STATUS_REORDER
         ELSE STATUS_HOT
    ELSE IF FGe(velocity, FMul(Binary64(rules.hot_velocity),
                               Binary64(rules.good_velocity_multiplier)))
    THEN IF FLt(wos, Binary64(rules.reorder_point))
         THEN IF FGe(effective_wos, Binary64(rules.reorder_point))
              THEN STATUS_GOOD
              ELSE STATUS_REORDER
         ELSE STATUS_GOOD
    ELSE IF FGt(wos, Binary64(rules.dead_wos)) /\ effective_oh > rules.dead_on_hand
    THEN STATUS_DEAD
    ELSE STATUS_MINIMAL

\* StatusDeterminer.determine_status: a status tag, or ValueError.
determine_status_binary64(m, rules) ==
    LET velocity == calculate_velocity_binary64(m)
        effective_oh == IF m.stock > 0 THEN m.stock ELSE 0
        wos == calculate_effective_wos_binary64(
                   effective_oh, 0, velocity, FromInt(DEFAULT_SILENCE_THRESHOLD))
        effective_wos == calculate_effective_wos_binary64(
                   effective_oh, m.incoming, velocity,
                   FromInt(DEFAULT_SILENCE_THRESHOLD))
    IN  IF wos.raised \/ effective_wos.raised THEN ValueError
        ELSE IF FEq(velocity, Zero)
        THEN zero_velocity_status(m.incoming, effective_oh)
        ELSE status_of_tiers_binary64(velocity, wos.value, effective_wos.value,
                                      effective_oh, rules)

\* velocity * rules.target_wos - (metrics.stock + metrics.incoming)
net_need_binary64(m, rules) ==
    FSub(FMul(calculate_velocity_binary64(m), Binary64(rules.target_wos)),
         FromInt(m.stock + m.incoming))

calculate_soq_binary64(m, rules, case_size) ==
    IF FLe(net_need_binary64(m, rules), Zero) THEN 0
    ELSE FCeil(FDiv(net_need_binary64(m, rules),
                    FromInt(IF case_size > 1 THEN case_size ELSE 1))) * case_size

\* settings['cannabis_logic'] as the settings form saves it: the defaults, or
\* a reorder point set equal to the target.
SettingsCannabisLogic ==
    {CannabisLogic,
     [CannabisLogic EXCEPT !.reorder_point = Num(3), !.target_wos = Num(3)]}

\* The rows analysed in binary64 and the report length typed in the window.
Binary64Stocks == {0, 34, 35}
Binary64Incoming == 0..1
Binary64Sold == {0, 50}
Binary64Cases == {-1, 2}
Binary64DaysTexts ==
    {[kind |-> "empty", value |-> Num(0)], [kind |-> "number", value |-> Num(7)]}

OrderRec(op, m, rules, case_size, raised, status, velocity, soq) ==
    [op |-> op, metrics |-> m, rules |-> rules, case_size |-> case_size,
     raised |-> raised, status |-> status, velocity |-> velocity, soq |-> soq]

NoOrder == OrderRec("none", <<>>, <<>>, 0, FALSE, "", Zero, 0)

\* apply_soq_and_status on one row, with the rules of the settings.
ApplySoqAndStatusBinary64 ==
    /\ ordering.op = "none"
    /\ \E text \in Binary64DaysTexts, stock \in Binary64Stocks,
          inc \in Binary64Incoming, sold \in Binary64Sold, last \in LastSaleCells,
          acc \in BOOLEAN, case \in Binary64Cases,
          rules_cannabis \in SettingsCannabisLogic :
          LET row == RowRec(stock, inc, sold, last, acc, case)
              days == parse_report_days(text)
              rules == rules_dict_to_status_rules(
                           IF acc THEN AccessoryLogic ELSE rules_cannabis, acc)
              m == row_metrics(row, days)
              ok == PostInit(m) = "ok"
          IN  ordering' =
                 IF ok
                 THEN OrderRec("apply_soq_and_status", m, rules,
                               safe_case_size(row), FALSE,
                               determine_status_binary64(m, rules),
                               calculate_velocity_binary64(m),
                               calculate_soq_binary64(m, rules, safe_case_size(row)))
                 ELSE OrderRec("apply_soq_and_status", m, rules,
                               safe_case_size(row), TRUE, "", Zero, 0)
    /\ UNCHANGED <<rulesVars, reconVars, transfers, ingestVars, analysis, history,
                   join, gui, rival>>

\* No InventoryMetrics constructed, no call made, no run started.
Init ==
    /\ metrics = <<>>
    /\ call = NoCall
    /\ master = <<>>
    /\ run = [pc |-> "idle"]
    /\ transfers = [pc |-> "idle"]
    /\ inbox = {}
    /\ archive = {}
    /\ store = <<>>
    /\ ingest = IdleIngest
    /\ analysis = IdleAnalysis
    /\ history = IdleHistory
    /\ join = IdleJoin
    /\ gui = InitCommon
    /\ rival = IdleIngest
    /\ ordering = NoOrder

NextRules ==
    \/ Construct
    \/ CalculateVelocity
    \/ DetermineStatus
    \/ CalculateSoq
    \/ CalculateEffectiveWos
    \/ ApplySoqAndStatus

SpecRules == Init /\ [][NextRules]_vars

NextRecon == RunLogic

SpecRecon == Init /\ [][NextRecon]_vars

NextTransfers == ProcessTransferData

SpecTransfers == Init /\ [][NextTransfers]_vars

NextIngest ==
    \/ Download
    \/ Remove
    \/ StartIngest
    \/ ProcessFile
    \/ Persist
    \/ ReturnIngest

SpecIngest == Init /\ [][NextIngest]_vars

NextAnalysis ==
    \/ StartAnalysis
    \/ LoadAndCompute
    \/ WriteExcelReport
    \/ CallbackTrue
    \/ ExceptHandler
    \/ ReturnAnalysis

SpecAnalysis == Init /\ [][NextAnalysis]_vars

NextHistory ==
    \/ BuildSalesHistory
    \/ ComputeRollingVelocities

SpecHistory == Init /\ [][NextHistory]_vars

NextRivals ==
    \/ Export
    \/ FirstStart
    \/ FirstProcess
    \/ FirstPersist
    \/ RivalStart
    \/ RivalProcess
    \/ RivalPersist

SpecRivals == Init /\ [][NextRivals]_vars

NextBinary64 == ApplySoqAndStatusBinary64

SpecBinary64 == Init /\ [][NextBinary64]_vars

NextGui ==
    \/ GenerateReport
    \/ WorkerLog
    \/ WorkerCompute
    \/ OnCompleteTrue
    \/ WorkerExcept
    \/ ProcessLogQueue

SpecGui == Init /\ [][NextGui]_vars

NextJoin == MergeDatasets

SpecJoin == Init /\ [][NextJoin]_vars

\* An analysis of one row while a history table may have been built.
NextBlend ==
    \/ BuildSalesHistory
    \/ ApplySoqAndStatus

SpecBlend == Init /\ [][NextBlend]_vars

(***************************************************************************)
(* Properties of business_rules.py (checked under SpecRules).              *)
(***************************************************************************)
ValidMetrics(m) ==
    /\ m.stock >= 0
    /\ m.incoming >= 0
    /\ RGe(m.total_units_sold, Num(0))
    /\ RGt(m.report_days, Num(0))

PositiveRules(r) ==
    /\ RGt(r.hot_velocity, Num(0))
    /\ RGt(r.reorder_point, Num(0))
    /\ RGt(r.target_wos, Num(0))
    /\ RGt(r.dead_wos, Num(0))
    /\ r.dead_on_hand >= 0
    /\ RGt(r.good_velocity_multiplier, Num(0))

\* determine_status / calculate_soq / calculate_velocity was reached, directly
\* or from apply_soq_and_status, with the metrics and rules of the call record.
ObjectCall(op) ==
    /\ call.op = op \/ (call.op = "apply_soq_and_status" /\ ~call.raised)
    /\ ValidMetrics(call.metrics[1])
StatusCalled == ObjectCall("determine_status") /\ PositiveRules(call.rules[1])
SoqCalled == ObjectCall("calculate_soq") /\ PositiveRules(call.rules[1])
VelocityCalled == ObjectCall("calculate_velocity")

TheVelocity == calculate_velocity(call.metrics[1])
TheWos == RDiv(Num(call.metrics[1].stock), TheVelocity)
TheEffectiveWos ==
    RDiv(Num(call.metrics[1].stock + call.metrics[1].incoming), TheVelocity)
TheThreshold ==
    RMul(call.rules[1].hot_velocity, call.rules[1].good_velocity_multiplier)

\* C1: for valid metrics and positive rules determine_status raises nothing,
\* returns one of the seven tags, and a second call with the same inputs
\* returns the tag of the first.
C1_StatusTotal ==
    StatusCalled =>
        /\ call.status \in StatusTags
        /\ call.status # ValueError
        /\ call.op = "determine_status" => ~call.raised
        /\ call.prev # <<>> => call.prev = <<call.status>>

C1_Witness ==
    /\ StatusCalled
    /\ call.op = "determine_status"
    /\ call.prev # <<>>
    /\ call.status = STATUS_DEAD

\* C2: with velocity 0 the status is New if incoming > 0 (whatever the
\* stock), else Cold if stock > 0, else Minimal, under every rule set.
C2_ZeroVelocity ==
    StatusCalled /\ REq(TheVelocity, Num(0)) =>
        call.status = IF call.metrics[1].incoming > 0 THEN STATUS_NEW
                      ELSE IF call.metrics[1].stock > 0 THEN STATUS_COLD
                      ELSE STATUS_MINIMAL

C2_Witness ==
    /\ StatusCalled
    /\ REq(TheVelocity, Num(0))
    /\ call.metrics[1].incoming > 0
    /\ call.metrics[1].stock > 0
    /\ call.status = STATUS_NEW

\* C3: with velocity >= hot_velocity the status is Hot if wos >=
\* reorder_point, else Good if effective wos >= reorder_point, else Reorder.
C3_HighVelocity ==
    StatusCalled /\ RGt(TheVelocity, Num(0))
                 /\ RGe(TheVelocity, call.rules[1].hot_velocity) =>
        call.status = IF RGe(TheWos, call.rules[1].reorder_point) THEN STATUS_HOT
                      ELSE IF RGe(TheEffectiveWos, call.rules[1].reorder_point)
                           THEN STATUS_GOOD
                           ELSE STATUS_REORDER

C3_Witness ==
    /\ StatusCalled
    /\ RGe(TheVelocity, call.rules[1].hot_velocity)
    /\ REq(TheWos, call.rules[1].reorder_point)
    /\ call.metrics[1].incoming > 0
    /\ call.status = STATUS_HOT

\* C4: with hot_velocity * good_velocity_multiplier <= velocity < hot_velocity
\* the status is Reorder if wos and effective wos are both < reorder_point,
\* and Good otherwise.
C4_MediumVelocity ==
    StatusCalled /\ RGt(TheVelocity, Num(0))
                 /\ RGe(TheVelocity, TheThreshold)
                 /\ RLt(TheVelocity, call.rules[1].hot_velocity) =>
        /\ call.status =
              IF /\ RLt(TheWos, call.rules[1].reorder_point)
                 /\ RLt(TheEffectiveWos, call.rules[1].reorder_point)
              THEN STATUS_REORDER
              ELSE STATUS_GOOD
        /\ call.status \notin {STATUS_HOT, STATUS_DEAD, STATUS_MINIMAL}

C4_Witness ==
    /\ StatusCalled
    /\ REq(TheVelocity, TheThreshold)
    /\ RLt(TheVelocity, call.rules[1].hot_velocity)
    /\ call.status = STATUS_REORDER

\* C5: with 0 < velocity < hot_velocity * good_velocity_multiplier the status
\* is Dead iff wos > dead_wos and stock > dead_on_hand, and Minimal otherwise,
\* whatever the incoming.
C5_LowVelocity ==
    StatusCalled /\ RGt(TheVelocity, Num(0)) /\ RLt(TheVelocity, TheThreshold)
                 /\ RLt(TheVelocity, call.rules[1].hot_velocity) =>
        call.status =
           IF /\ RGt(TheWos, call.rules[1].dead_wos)
              /\ call.metrics[1].stock > call.rules[1].dead_on_hand
           THEN STATUS_DEAD
           ELSE STATUS_MINIMAL

C5_Witness ==
    /\ StatusCalled
    /\ RGt(TheVelocity, Num(0))
    /\ RLt(TheVelocity, TheThreshold)
    /\ REq(TheWos, call.rules[1].dead_wos)
    /\ call.metrics[1].stock > call.rules[1].dead_on_hand
    /\ call.metrics[1].incoming > 0
    /\ call.status = STATUS_MINIMAL

TheNetNeed ==
    RSub(RMul(TheVelocity, call.rules[1].target_wos),
         Num(call.metrics[1].stock + call.metrics[1].incoming))

\* C6: for case_size >= 1 calculate_soq returns 0 when net_need <= 0 and
\* otherwise the smallest multiple of case_size that is >= net_need; the
\* result is a non-negative whole multiple of case_size.
C6_SoqCaseMultiple ==
    SoqCalled /\ call.case_size >= 1 =>
        /\ call.soq >= 0
        /\ call.soq % call.case_size = 0
        /\ RLe(TheNetNeed, Num(0)) => call.soq = 0
        /\ RGt(TheNetNeed, Num(0)) =>
              /\ RGe(Num(call.soq), TheNetNeed)
              /\ RLt(Num(call.soq - call.case_size), TheNetNeed)

C6_Witness ==
    /\ SoqCalled
    /\ call.case_size > 1
    /\ RGt(TheNetNeed, Num(call.case_size))
    /\ RGt(Num(call.soq), TheNetNeed)

TheDaysBetween ==
    Floor(RSub(call.metrics[1].last_sale_date[1], call.metrics[1].report_start_date))

OutOfStockWithLastSale ==
    call.metrics[1].stock = 0 /\ call.metrics[1].last_sale_date # <<>>

\* The active period as C7 states it: the clamp to [1, report_days], with a
\* last sale on or before the start date giving 1 day.
ClaimedPeriod ==
    IF OutOfStockWithLastSale
    THEN IF TheDaysBetween < 1 THEN Num(1)
         ELSE IF RGt(Num(TheDaysBetween), call.metrics[1].report_days)
              THEN call.metrics[1].report_days
              ELSE Num(TheDaysBetween)
    ELSE call.metrics[1].report_days

\* The same, except that a window shorter than a day is the period itself.
AmendedPeriod ==
    IF OutOfStockWithLastSale /\ RLt(call.metrics[1].report_days, Num(1))
    THEN call.metrics[1].report_days
    ELSE ClaimedPeriod

VelocityOver(period) ==
    /\ RGt(period, Num(0))
    /\ call.value[2] > 0
    /\ RGe(call.value, Num(0))
    /\ REq(call.value,
           RDiv(RMul(Num(7), call.metrics[1].total_units_sold), period))

\* C7 as stated: the velocity is total_units_sold / (period / 7) with the
\* period of ClaimedPeriod.
C7_AsStated == VelocityCalled => VelocityOver(ClaimedPeriod)

\* C7 (amended): the active period is report_days unless stock == 0 and a
\* last sale date is present, when it is min(max(1, days_between),
\* report_days): the clamp to [1, report_days] for a window of at least a
\* day, and report_days itself for a shorter window.  The velocity is
\* total_units_sold / (period / 7), never negative, never a division by zero.
C7_ActivePeriod == VelocityCalled => VelocityOver(AmendedPeriod)

C7_Witness ==
    /\ VelocityCalled
    /\ OutOfStockWithLastSale
    /\ TheDaysBetween < 1
    /\ RLt(call.metrics[1].report_days, Num(1))
    /\ RGt(call.value, Num(0))

\* C8: calculate_effective_wos returns exactly the silence threshold at
\* velocity 0, raises the validation error at velocity < 0, and returns
\* (max(0, stock) + incoming) / velocity at velocity > 0.
C8_EffectiveWos ==
    call.op = "calculate_effective_wos" =>
        LET stock == call.args[1]
            incoming == call.args[2]
            velocity == call.args[3]
            threshold == call.args[4]
        IN  /\ REq(velocity, Num(0)) => ~call.raised /\ call.value = threshold
            /\ RLt(velocity, Num(0)) => call.raised
            /\ RGt(velocity, Num(0)) =>
                  /\ ~call.raised
                  /\ call.value[2] > 0
                  /\ REq(RMul(call.value, velocity),
                         Num((IF stock > 0 THEN stock ELSE 0) + incoming))

C8_Witness ==
    /\ call.op = "calculate_effective_wos"
    /\ REq(call.args[3], Num(0))
    /\ call.args[1] # 0
    /\ call.args[4] # Num(DEFAULT_SILENCE_THRESHOLD)
    /\ call.value = call.args[4]

\* C9: a construction with a negative stock, incoming or units sold, or a
\* non-positive window, raises and yields no object, and an object that is
\* constructed holds the values given; every InventoryMetrics that the
\* methods or the analysis run work on is valid.
C9_FailFast ==
    /\ call.op = "InventoryMetrics" =>
          /\ ~ValidMetrics(call.metrics[1]) => call.raised /\ metrics = <<>>
          /\ metrics # <<>> => metrics = call.metrics
    /\ metrics # <<>> => ValidMetrics(metrics[1])
    /\ call.op = "apply_soq_and_status" /\ ~call.raised =>
          ValidMetrics(call.metrics[1])

C9_Witness ==
    /\ call.op = "InventoryMetrics"
    /\ call.metrics[1].stock >= 0
    /\ call.metrics[1].incoming >= 0
    /\ RGe(call.metrics[1].total_units_sold, Num(0))
    /\ REq(call.metrics[1].report_days, Num(0))
    /\ call.raised
    /\ metrics = <<>>

(***************************************************************************)
(* Properties of the reconciliation (checked under SpecRecon).             *)
(***************************************************************************)
\* The location a location string of the inputs names, or "none".
NamedLocation(str) ==
    CASE str = <<"H", "i", "l", "l">> -> "Hill"
      [] str = <<"V", "A", "L", "L", "E", "Y">> -> "Valley"
      [] str = <<"j", "a", "s", "p", "e", "r">> -> "Jasper"
      [] OTHER -> "none"

\* The location the settings configure as the purchase-order destination.
ConfiguredDestination ==
    CASE run.po_destination = <<>> -> "Jasper"
      [] run.po_destination = <<<<"H">>>> -> "Hill"
      [] run.po_destination = <<<<"v">>>> -> "Valley"
      [] OTHER -> "Jasper"

RECURSIVE SumOver(_, _)
SumOver(rows, I) ==
    IF I = {} THEN 0
    ELSE LET i == CHOOSE j \in I : TRUE
         IN  rows[i].qty + SumOver(rows, I \ {i})

PurchaseOrdered(sku) ==
    SumOver(run.df_po, {i \in DOMAIN run.df_po : run.df_po[i].sku = sku})
PO(sku, L) == IF L = ConfiguredDestination THEN PurchaseOrdered(sku) ELSE 0
TransfersTo(sku, L) ==
    SumOver(run.df_transfers,
            {i \in DOMAIN run.df_transfers :
                /\ run.df_transfers[i].sku = sku
                /\ NamedLocation(run.df_transfers[i].dest) = L})
TransfersFrom(sku, L) ==
    SumOver(run.df_transfers,
            {i \in DOMAIN run.df_transfers :
                /\ run.df_transfers[i].sku = sku
                /\ NamedLocation(run.df_transfers[i].source) = L})
Net(sku, L) == PO(sku, L) + TransfersTo(sku, L) - TransfersFrom(sku, L)

LeftOutOfTotals(i) ==
    \/ ~transfers.source_col
    \/ NamedLocation(transfers.df_transfers[i].source) = "none"
    \/ ~transfers.dest_col
    \/ NamedLocation(transfers.df_transfers[i].dest) = "none"

WarningLogged == \E j \in DOMAIN transfers.log : transfers.log[j].level = "warning"

\* C11: a transfer record whose source or destination matches none of Hill,
\* Valley, Jasper is normalized to no location, and whenever a record is
\* left out of the per-location totals a warning is in the log.
C11_UnmappedWarned ==
    transfers.pc = "processed" =>
        \A i \in DOMAIN transfers.df_transfers :
            /\ NamedLocation(transfers.df_transfers[i].source) = "none" =>
                  normalize_transfer_loc(transfers.df_transfers[i].source) = <<>>
            /\ LeftOutOfTotals(i) => WarningLogged

(***************************************************************************)
(* Properties of the ingestion (checked under SpecIngest).                 *)
(***************************************************************************)
\* The messages that close a merge: one per merged file, in merge order.
MergeMsgs(log) ==
    LET Archiving(msg) == msg.text \in {"Moved to Archive", "Could not move file"}
    IN  SelectSeq(log, Archiving)

MergedFiles(log) == {MergeMsgs(log)[k].file : k \in DOMAIN MergeMsgs(log)}

\* The rows that a snapshot file contributes when it is merged.
RowsOf(f) == ingest_file(SnapshotFiles[f]).rows

\* C12: the persisted store holds at most one row per
\* (SKU, location, report_end_date), after any sequence of ingestion runs.
C12_OneRowPerKey ==
    \A i, j \in DOMAIN store :
        (/\ store[i].SKU = store[j].SKU
         /\ store[i].Location = store[j].Location
         /\ store[i].Report_End_Date = store[j].Report_End_Date) => i = j

\* The rows of the given report end date, in the order of the frame.
RowsOfDate(df, date) ==
    LET OfDate(row) == row.Report_End_Date = date
    IN  SelectSeq(df, OfDate)

\* The store holds the snapshot of file f: its rows of the file's report
\* date are the rows of f.
Ingested(st, f) ==
    /\ RowsOf(f) # <<>>
    /\ RowsOfDate(st, RowsOf(f)[1].Report_End_Date) = sort_values(RowsOf(f))

StoreWasRead(log) ==
    \A k \in DOMAIN log : log[k].text # "Master DB Corrupt. Starting Fresh."

\* C13: ingesting a snapshot file into a store that already holds it leaves
\* the persisted store as it was: (1) for every store that is persisted
\* between two runs and every file, merging and saving the file twice gives
\* the rows, in the order, of merging and saving it once; (2) a run that
\* reads the store and
\* merges only a file the store already holds persists the store unchanged.
C13_Idempotent ==
    /\ [](\A f \in FileNames :
             ingest.pc = "idle" /\ RowsOf(f) # <<>> =>
                LET once == sort_values(smart_merge(store, RowsOf(f)))
                IN  /\ Ingested(once, f)
                    /\ sort_values(smart_merge(once, RowsOf(f))) = once)
    /\ [][\A f \in FileNames :
             (/\ ingest.pc = "files"
              /\ ingest.files = <<>>
              /\ MergedFiles(ingest.log) = {f}
              /\ Len(MergeMsgs(ingest.log)) = 1
              /\ StoreWasRead(ingest.log)
              /\ Ingested(store, f)) => store' = store]_vars

C13_Witness ==
    /\ ingest.pc = "done"
    /\ MergedFiles(ingest.log) = {"product-sales-2025-12-01-2025-11-01.csv"}
    /\ Len(MergeMsgs(ingest.log)) = 1
    /\ StoreWasRead(ingest.log)
    /\ \E k \in DOMAIN ingest.log :
          /\ ingest.log[k].text = "Overwriting records"
          /\ ingest.log[k].file = "product-sales-2025-12-01-2025-11-01.csv"
    /\ \E k \in DOMAIN ingest.log : ingest.log[k].text = "Memory Bank Saved!"
    /\ Ingested(store, "product-sales-2025-12-01-2025-11-01.csv")
    /\ Len(store) = 3

\* Every row of file f is a row of the store st.
RowsPersisted(f, st) ==
    \A i \in DOMAIN RowsOf(f) : \E j \in DOMAIN st : st[j] = RowsOf(f)[i]

\* The merge k of the log was overwritten by a later merge of the same run:
\* a file with the same report end date.
OverwrittenLater(log, k) ==
    \E n \in DOMAIN MergeMsgs(log) :
        /\ n > k
        /\ RowsOf(MergeMsgs(log)[n].file)[1].Report_End_Date =
              RowsOf(MergeMsgs(log)[k].file)[1].Report_End_Date

\* The file cannot be parsed: unreadable content, or a name whose embedded
\* dates are missing or are no calendar dates.
Unparseable(f) ==
    \/ ~SnapshotFiles[f].readable
    \/ Len(SnapshotFiles[f].matches) < 2
    \/ \E k \in DOMAIN SnapshotFiles[f].matches :
          LET token == SnapshotFiles[f].matches[k]
          IN  token[3] > DaysIn(token[1], token[2])

LacksRequiredColumns(f) ==
    SnapshotFiles[f].readable /\ ~({"SKU", "Quantity"} \subseteq SnapshotFiles[f].columns)

\* The run in state ing has met a file that failed to parse: it logged the
\* failure, or the failure ended the run inside the loop.
SomeFileFailed(ing) ==
    \/ \E k \in DOMAIN ing.log :
          ing.log[k].text \in {"Error processing",
                               "SKIPPING: Could not find valid date range"}
    \/ ing.pc = "raised" /\ ing.files # <<>> /\ Unparseable(Head(ing.files))

\* C14: the store is written only by the Persisting step, once every file
\* of the batch has been merged or skipped; and when a run in which some
\* file failed to parse ends, other than by a failed write of the store, the
\* store holds the rows of every file the run merged (and did not overwrite
\* by a later file of the same report date).
C14_PersistAfterBatch ==
    [][/\ store' # store =>
             /\ ingest.pc = "files"
             /\ ingest.files = <<>>
             /\ ingest'.pc = "done"
       /\ (/\ ingest.pc = "files"
           /\ ingest'.pc \in {"done", "raised"}
           /\ ~(ingest.files = <<>> /\ ingest'.pc = "raised")
           /\ SomeFileFailed(ingest')) =>
             \A k \in DOMAIN MergeMsgs(ingest'.log) :
                 \/ OverwrittenLater(ingest'.log, k)
                 \/ RowsPersisted(MergeMsgs(ingest'.log)[k].file, store')]_vars

\* C15: a file whose rows have been merged is no longer in the source
\* folder, so that no later scan lists it.
C15_MergedLeavesInbox ==
    \A f \in MergedFiles(ingest.log) : f \notin inbox

\* The file parses and has the required columns, and no data row.
ZeroUsableRows(f) ==
    /\ ~Unparseable(f)
    /\ ~LacksRequiredColumns(f)
    /\ SnapshotFiles[f].rows = <<>>

\* The step from ing to next skips the file f with a diagnostic about it,
\* merges nothing, and leaves the run in its loop over the remaining files.
SkippedWithDiagnostic(f, ing, next) ==
    /\ next.pc = "files"
    /\ next.files = Tail(ing.files)
    /\ next.master_df = ing.master_df
    /\ next.updates_made = ing.updates_made
    /\ Len(next.log) > Len(ing.log)
    /\ next.log[Len(next.log)].file = f
    /\ next.log[Len(next.log)].level \in {"warning", "error"}

\* C16: when the loop comes to a file with zero usable rows, the file is
\* rejected with a diagnostic, nothing is merged, no store row is removed, and
\* the run goes on with the remaining files.
C16_ZeroRowsRejected ==
    [][(/\ ingest.pc = "files"
        /\ ingest.files # <<>>
        /\ ZeroUsableRows(Head(ingest.files))
        /\ ingest' # ingest) =>
            /\ SkippedWithDiagnostic(Head(ingest.files), ingest, ingest')
            /\ store' = store]_vars

\* C17: when the loop comes to a file that is unparseable or lacks a
\* required column, or finds the file locked, the file is skipped with a
\* warning and left unmerged, and the run goes on with the remaining files.
C17_BadFileSkipped ==
    [][(/\ ingest.pc = "files"
        /\ ingest.files # <<>>
        /\ ingest' # ingest
        /\ \/ Unparseable(Head(ingest.files))
           \/ LacksRequiredColumns(Head(ingest.files))
           \/ (/\ Len(ingest'.log) > Len(ingest.log)
               /\ ingest'.log[Len(ingest'.log)].text = "Skipping (File is open/locked)")) =>
            /\ SkippedWithDiagnostic(Head(ingest.files), ingest, ingest')
            /\ inbox' = inbox
            /\ store' = store]_vars

\* The later of the first two dates embedded in the name of file f.
LaterDate(f) ==
    LET first == to_datetime(SnapshotFiles[f].matches[1]).value
        second == to_datetime(SnapshotFiles[f].matches[2]).value
    IN  IF first > second THEN first ELSE second

\* C18: the rows that the merge of a file appends to the frame are stamped
\* with the later of the two dates of the file's name.
C18_LaterDateStamped ==
    [][(/\ ingest.pc = "files"
        /\ ingest.files # <<>>
        /\ Len(MergeMsgs(ingest'.log)) > Len(MergeMsgs(ingest.log))) =>
            LET f == Head(ingest.files)
                n == Len(ingest'.master_df)
            IN  /\ n >= Len(SnapshotFiles[f].rows)
                /\ \A i \in (n - Len(SnapshotFiles[f].rows) + 1)..n :
                      ingest'.master_df[i].Report_End_Date = LaterDate(f)]_vars

(***************************************************************************)
(* Properties of the analysis run (checked under SpecAnalysis).            *)
(***************************************************************************)
RunEnded == analysis.pc \in {"returned", "raised"}

\* C19: a run invokes the completion callback exactly once: never more than
\* once at any point, once when the run has ended, with True if the run
\* succeeded (the report was written and no error was met) and False if not.
C19_CallbackExactlyOnce ==
    /\ Len(analysis.callbacks) <= 1
    /\ RunEnded =>
          /\ Len(analysis.callbacks) = 1
          /\ analysis.callbacks[1] = (analysis.error = "")

\* C20: whenever the callback has reported a failure the run has written no
\* report file, and whenever the run has written a report file and has
\* ended, the callback has reported success and no failure.
C20_AtomicReport ==
    /\ \A k \in DOMAIN analysis.callbacks :
          analysis.callbacks[k] = FALSE => analysis.report = 0
    /\ RunEnded /\ analysis.report > 0 =>
          /\ analysis.callbacks # <<>>
          /\ \A k \in DOMAIN analysis.callbacks : analysis.callbacks[k] = TRUE

(***************************************************************************)
(* Properties of hh_history.py (checked under SpecHistory).                *)
(***************************************************************************)
TheAsOf ==
    IF history.query.as_of_date = <<>> THEN toordinal(HistoryToday)
    ELSE history.query.as_of_date[1]

\* The rows of the table that the query is about: of its SKU, and of its
\* location when one is given.
QueriedRows ==
    LET Asked(row) ==
            /\ row.SKU = history.query.sku
            /\ history.query.location # <<>> => row.Location = history.query.location[1]
    IN  SelectSeq(history.df_history, Asked)

InWindow(row) ==
    /\ row.Report_End_Date >= TheAsOf - 28
    /\ row.Report_End_Date <= TheAsOf

\* C21: the 4-week rolling velocity of a query is the sum of Quantity over
\* exactly the rows of the SKU (and location) whose Report_End_Date lies in
\* [as_of_date - 28 days, as_of_date], divided by the 4 weeks of the window;
\* rows dated after as_of_date and rows older than the window do not count.
C21_RollingWindow ==
    history.pc = "queried" =>
        history.result.vel_4w = Rat(QuantitySum(SelectSeq(QueriedRows, InWindow)), 4)

(***************************************************************************)
(* The velocity of the analysis and the history table (SpecBlend).  The    *)
(* row analysed is that of SKU A at the Hill location.                     *)
(***************************************************************************)
RowAnalysed == call.op = "apply_soq_and_status" /\ ~call.raised

HistoryAvailable == history.pc = "built"

Rolling4w ==
    compute_rolling_velocities(history.df_history, SkuA, <<"Hill">>, <<>>).vel_4w

\* C22: when a history table is available, the velocity of a row (the one its
\* status and SOQ are computed with) is the rolling 4-week velocity of the
\* table whenever that is strictly positive, and the velocity of the current
\* run otherwise.
C22_HistoryBlend ==
    RowAnalysed /\ HistoryAvailable =>
        call.value = IF RGt(Rolling4w, Num(0)) THEN Rolling4w
                     ELSE calculate_velocity(call.metrics[1])

(***************************************************************************)
(* Further properties of hh_ingest.py (checked under SpecIngest).          *)
(***************************************************************************)
SameKey(a, b) ==
    /\ a.SKU = b.SKU
    /\ a.Location = b.Location
    /\ a.Report_End_Date = b.Report_End_Date

\* The run whose log is given merged a file of the report end date.
MergedDate(log, date) ==
    \E f \in MergedFiles(log) : RowsOf(f)[1].Report_End_Date = date

\* C23: the persisted store never shrinks except by overwrite-on-reingest:
\* in every step, every (SKU, location, report_end_date) row of the store
\* is still in the store afterwards unless the run merged a file of that
\* report_end_date; this includes a run that could not read the store file.
C23_NeverShrinks ==
    [][\A i \in DOMAIN store :
          \/ \E j \in DOMAIN store' : SameKey(store'[j], store[i])
          \/ MergedDate(ingest'.log, store[i].Report_End_Date)]_vars

\* No run of update_memory_bank is between its first file and its end.
NoRunUnderWay == ingest.pc \in {"idle", "done", "raised"}

\* The rows of f, or of an archived file of the same report end date that
\* overwrote them, are in the store.
PersistedOrOverwritten(f) ==
    \E g \in archive :
        /\ RowsOf(g)[1].Report_End_Date = RowsOf(f)[1].Report_End_Date
        /\ RowsPersisted(g, store)

\* C26: whenever no run is under way, also after a run that aborted or
\* failed before or during the Persisting step, every file that has been
\* moved to the archive has its rows in the persisted store: no file is
\* archived whose data was never persisted.
C26_ArchivedIsPersisted ==
    NoRunUnderWay => \A f \in archive : PersistedOrOverwritten(f)

(***************************************************************************)
(* Two runs of update_memory_bank on one store (checked under SpecRivals). *)
(***************************************************************************)
\* The files that the run with the log given merged and moved to the Archive.
ArchivedBy(log) ==
    {log[k].file : k \in {i \in DOMAIN log : log[i].text = "Moved to Archive"}}

\* The run read the store it started from, and saved its master bank.
RanToTheEnd(ing) ==
    /\ ing.pc = "done"
    /\ StoreWasRead(ing.log)
    /\ \E k \in DOMAIN ing.log : ing.log[k].text = "Memory Bank Saved!"

\* The rows of f, or of a file of the same report end date that one of the
\* two runs merged, are in the store.
KeptOrReingested(f) ==
    \E g \in MergedFiles(ingest.log) \cup MergedFiles(rival.log) :
        /\ RowsOf(g)[1].Report_End_Date = RowsOf(f)[1].Report_End_Date
        /\ RowsPersisted(g, store)

\* C27: when two runs of update_memory_bank on the same store and source
\* folder interleave and both end with their master bank saved, the store
\* holds the rows of every file that either run merged and archived (or the
\* rows of a file of the same report date that one of them merged): the
\* save of one run does not lose the merge of the other.
C27_NoLostUpdate ==
    RanToTheEnd(ingest) /\ RanToTheEnd(rival) =>
        \A f \in ArchivedBy(ingest.log) \cup ArchivedBy(rival.log) :
            KeptOrReingested(f)

(***************************************************************************)
(* Properties of the merge of the extracts (checked under SpecJoin).       *)
(***************************************************************************)
RECURSIVE Trim(_)
\* The string without leading and trailing blanks.
Trim(str) ==
    IF str = <<>> THEN <<>>
    ELSE IF Head(str) = " " THEN Trim(Tail(str))
    ELSE IF str[Len(str)] = " " THEN Trim(SubSeq(str, 1, Len(str) - 1))
    ELSE str

\* The normalized form of a SKU cell: upper-cased, trimmed, without a
\* trailing .0.
NormalizedSku(cell) == strip_float_suffix(Upper(Trim(cell)))

Alphanumeric == {"A", "B", "a", "b", "0"}

\* A SKU cell can be normalized when its form has an alphanumeric character.
Normalizable(cell) ==
    \E i \in DOMAIN NormalizedSku(cell) : NormalizedSku(cell)[i] \in Alphanumeric

RECURSIVE SumNormalized(_, _)
\* The quantities of the rows whose SKU has the normalized form given.
SumNormalized(rows, form) ==
    IF rows = <<>> THEN 0
    ELSE (IF Normalizable(Head(rows).sku) /\ NormalizedSku(Head(rows).sku) = form
          THEN Head(rows).qty ELSE 0)
         + SumNormalized(Tail(rows), form)

\* C24: every join of the inventory, sales, purchase-order and transfer
\* extracts is keyed on the normalized SKU (upper-cased, trimmed, trailing
\* .0 removed): the master table has one row per normalized SKU, a row
\* holds the quantities of exactly the source rows of its normalized form,
\* and a row whose SKU cannot be normalized is left out of the table and
\* counted in a diagnostic.
C24_JoinsOnNormalizedSku ==
    join.pc = "merged" =>
        /\ \A i, j \in DOMAIN join.master :
              NormalizedSku(join.master[i].SKU) = NormalizedSku(join.master[j].SKU)
                 => i = j
        /\ \A i \in DOMAIN join.master :
              LET form == NormalizedSku(join.master[i].SKU)
              IN  /\ Normalizable(join.master[i].SKU)
                  /\ join.master[i].Sold = SumNormalized(join.df_sales, form)
                  /\ join.master[i].PO_Qty = SumNormalized(join.df_po, form)
                  /\ join.master[i].Trans_Hill = SumNormalized(join.df_transfers, form)
                  /\ join.master[i].Trans_To_Jasper
                        = SumNormalized(join.df_transfers, form)
        /\ (\E i \in DOMAIN join.df_inv : ~Normalizable(join.df_inv[i].sku))
              => \E k \in DOMAIN join.log : join.log[k] = "SKUs excluded"

(***************************************************************************)
(* Properties of the window (checked under SpecGui).                       *)
(***************************************************************************)
\* The messages shown in the log widget, then those still in the queue.
ShownThenQueued ==
    [i \in 1..Len(gui.log_text) |-> gui.log_text[i][4]] \o gui.log_queue

InPutOrder(msgs) == \A i \in DOMAIN msgs : msgs[i].n = i

QueueBounded == gui.maxsize > 0 /\ Len(gui.log_queue) <= gui.maxsize

SomePut == gui.puts > 0

\* C25: log messages reach the log widget only through the log queue: the
\* messages shown, followed by the messages still queued, are the messages
\* put so far, each once and in the order of the puts (the worker only
\* enqueues, only the drain of the UI thread inserts lines); and the queue
\* that the messages were put on is bounded.
C25_LogQueue ==
    /\ Len(ShownThenQueued) = gui.puts
    /\ InPutOrder(ShownThenQueued)
    /\ SomePut => QueueBounded

Alive(w) == gui.workers[w].pc # "ended"

\* C29: at most one analysis run is in progress: no two workers are alive,
\* the button is disabled while a worker is alive whose completion
\* callback has not fired, and once the callback of the last run has
\* fired, whether with success or failure, the button is enabled again.
C29_OneRunAtATime ==
    /\ \A v, w \in DOMAIN gui.workers : Alive(v) /\ Alive(w) => v = w
    /\ \A w \in DOMAIN gui.workers :
          Alive(w) /\ gui.workers[w].callbacks = <<>> => gui.gen_btn = "disabled"
    /\ (gui.workers # <<>> /\ \A w \in DOMAIN gui.workers : ~Alive(w))
          => gui.gen_btn = "normal"

(***************************************************************************)
(* The status as a function of the incoming quantity.                      *)
(***************************************************************************)
\* The metrics of the call with the incoming quantity raised by k.
MoreIncoming(k) == [call.metrics[1] EXCEPT !.incoming = @ + k]
StatusWithMore(k) == determine_status(MoreIncoming(k), call.rules[1])

IncomingStep(before, after) ==
    \/ after = before
    \/ before = STATUS_REORDER /\ after = STATUS_GOOD
    \/ before = STATUS_COLD /\ after = STATUS_NEW
    \/ before = STATUS_MINIMAL /\ after = STATUS_NEW

\* C30: for fixed stock, sales, dates and rules, raising incoming never turns
\* another tag into Reorder and never changes Hot, Dead or Good; the only
\* changes are Reorder to Good, Cold to New and Minimal to New.
C30_StatusMonotoneInIncoming ==
    StatusCalled /\ ~call.raised =>
        \A k \in 1..MaxIncoming :
            /\ IncomingStep(call.status, StatusWithMore(k))
            /\ StatusWithMore(k) = STATUS_REORDER => call.status = STATUS_REORDER
            /\ call.status \in {STATUS_HOT, STATUS_DEAD, STATUS_GOOD} =>
                   StatusWithMore(k) = call.status

\* determine_status returned Reorder, and Good once incoming was raised.
C30_Witness ==
    /\ StatusCalled /\ ~call.raised
    /\ call.op = "determine_status"
    /\ call.status = STATUS_REORDER
    /\ \E k \in 1..MaxIncoming : StatusWithMore(k) = STATUS_GOOD

(***************************************************************************)
(* The order quantity of a row tagged Reorder.                             *)
(***************************************************************************)
RowOrdered ==
    /\ ordering.op = "apply_soq_and_status"
    /\ ~ordering.raised
    /\ ValidMetrics(ordering.metrics)
    /\ ordering.case_size >= 1
    /\ RLe(ordering.rules.reorder_point, ordering.rules.target_wos)

\* C28: for valid metrics, a case size >= 1 and reorder_point <= target_wos,
\* a row whose status is Reorder gets a suggested order quantity > 0, and a
\* row of velocity 0 gets the quantity 0.
C28_ReorderOrdersACase ==
    RowOrdered =>
        /\ ordering.status = STATUS_REORDER => ordering.soq > 0
        /\ FEq(ordering.velocity, Zero) => ordering.soq = 0

====
